---------------------------- MODULE Spec2Model ----------------------------
(***************************************************************************)
(* Weight transfer of blender-bone-tools (src/modules/weight_transfer.py): *)
(* the export / copy operators that write the weight exchange payload and  *)
(* the import / paste operators that transfer it onto the active mesh by   *)
(* nearest source vertex.                                                  *)
(*                                                                         *)
(* A mesh is the active object: its vertex groups in index order, its      *)
(* vertices' world coordinates (world_matrix @ vertex.co, the same product *)
(* in every operator), their select flags and, per vertex and group name,  *)
(* the weight (NoWeight where the vertex is not in the group).             *)
(*                                                                         *)
(* The two armature operators follow: the chain renamer                    *)
(* (src/modules/physbone_renamer.py) and the name converter                *)
(* (src/modules/name_matcher.py).  An armature is its edit bones in        *)
(* armature order: each bone's parent and its name.                        *)
(***************************************************************************)
EXTENDS Integers, Sequences, FiniteSets, TLC

\* ------------------------------------------------------------- bounds
MaxVerts == 2
MaxSrc == 2

\* ------------------------------------------------------------ domains
BoneNames == {"A", "B"}
Points == {<<0, 0, 0>>, <<1, 0, 0>>, <<2, 0, 0>>}
Origin == <<0, 0, 0>>
\* the values the max_distance property is given (0 = unlimited)
Distances == {0, 1}
\* the weights a payload entry carries
WeightValues == {1, 2}
\* the weights painted on a mesh: not in the group, in it with weight 0, or 1

\* group.weight(index) raises RuntimeError for a vertex that is not in the group
NoWeight == -1
\* kd.find on an empty tree returns index None; find_range returns no match
NoIndex == 0
\* a "coord" key that is absent from a vertex entry of the payload
NoCoord == <<>>
\* a "bone" key that is absent from a weight entry of the payload
MissingKey == "<missing>"
\* the weights painted on a mesh: not in the group, in it with weight 0, or 1
PaintedWeights == {NoWeight, 0, 1}

VARIABLES
    vertex_groups,   \* obj.vertex_groups: the group names in index order
    co,              \* world coordinate of each vertex of obj.data.vertices
    select,          \* vertex.select of each vertex
    weight,          \* weight[v][name]: weight of vertex v in group name
    selected_only,   \* context.scene.bone_tools.selected_only
    file,            \* the payload at self.filepath
    clipboard,       \* the payload in context.window_manager.clipboard
    pc,              \* "ready": no payload written yet, "exported", "done"
    call,            \* the last operator invocation and what it returned
    parent,          \* bone.parent of each edit bone (NoBone: no parent)
    edit_bones,      \* armature.edit_bones: bone.name of each bone, in order
    selected_bones,  \* context.selected_editable_bones, in the host's order
    prefix,          \* context.scene.bone_tools.prefix
    presets,         \* the preset store load_presets() reads (presets.json)
    source_preset,   \* context.scene.bone_tools.source_preset
    target_preset,   \* context.scene.bone_tools.target_preset
    installed,       \* the "version" tuple in the add-on's __init__.py
    release,         \* tag_name of the latest release the GitHub API answers with
    today,           \* datetime.datetime.now().date(), as a day number
    last_update_check, \* the scene's stored bone_tools_last_update_check
    scene_type,      \* the attributes the add-on has set on bpy.types.Scene
    registered,      \* register() has run and unregister() has not
    timers,          \* the callbacks pending in bpy.app.timers
    threads,         \* the threaded_update_check threads started so far
    latest_tag_name, \* the module global _latest_tag_name
    window_manager,  \* the keys the add-on has set on context.window_manager
    dialog,          \* bone.show_update_dialog is open
    addon_dir,       \* the add-on directory: type of each relative path
    package          \* the update zip at zip_path, as it extracts

\* the armature in edit mode, and what the two armature operators read
armatureVars == <<parent, edit_bones, selected_bones, prefix>>
presetVars == <<presets, source_preset, target_preset>>
\* the update check and the installers
updateVars == <<installed, release, today, last_update_check, scene_type, registered, timers,
                threads, latest_tag_name, window_manager, dialog>>
installVars == <<addon_dir, package>>
addonVars == <<updateVars, installVars>>
\* the active mesh and the payloads of the weight operators
meshVars == <<vertex_groups, co, select, weight, selected_only, file, clipboard, pc>>

vars == <<meshVars, call, armatureVars, presetVars, addonVars>>

\* ------------------------------------------------------------ helpers
Range(s) == {s[i] : i \in DOMAIN s}

SeqsUpTo(S, n) == UNION {[1..k -> S] : k \in 0..n}

NoDuplicates(s) == \A i, j \in DOMAIN s : s[i] = s[j] => i = j

GroupLists == {s \in SeqsUpTo(BoneNames, Cardinality(BoneNames)) : NoDuplicates(s)}

IndexOf(s, x) == CHOOSE i \in DOMAIN s : s[i] = x /\ \A j \in DOMAIN s : s[j] = x => i <= j

\* The payload of a file that cannot be opened / an empty clipboard.
MissingPayload == [kind |-> "missing", vertex_groups |-> <<>>, vertices |-> <<>>]

NoCall == [op |-> "none", max_distance |-> 0, result |-> "NONE", report |-> "",
           original_groups |-> <<>>, original_weight |-> <<>>,
           import_data |-> MissingPayload, weight_operations |-> <<>>]

\* ------------------------------------------------------------- export
\* weight > 0 of the export loop
\* (faulty variant: zero weights are exported too)
IsExportedWeightBug(w) == w >= 0
IsExportedWeight(w) == w > 0

\* The weights list export builds for one vertex: one {"bone", "weight"} per
\* group, in group order, for the groups the vertex is in with weight > 0.
RECURSIVE VertexWeights(_, _, _)
VertexWeights(groups, w, i) ==
    IF i > Len(groups) THEN <<>>
    ELSE LET name == groups[i]
             rest == VertexWeights(groups, w, i + 1)
         IN  IF w[name] = NoWeight THEN rest
             ELSE IF IsExportedWeight(w[name])
                  THEN <<[bone |-> name, weight |-> w[name]]>> \o rest
                  ELSE rest

\* export_data["vertices"]: an entry for each vertex that has weights
RECURSIVE ExportVertices(_, _, _, _)
ExportVertices(groups, coords, wt, v) ==
    IF v > Len(coords) THEN <<>>
    ELSE LET weights == VertexWeights(groups, wt[v], 1)
             rest == ExportVertices(groups, coords, wt, v + 1)
         IN  IF weights # <<>>
             THEN <<[coord |-> coords[v], weights |-> weights]>> \o rest
             ELSE rest

ExportData(groups, coords, wt) ==
    [kind |-> "ok", vertex_groups |-> groups,
     vertices |-> ExportVertices(groups, coords, wt, 1)]

ExportCall(msg) ==
    [NoCall EXCEPT !.op = msg, !.result = "FINISHED",
                   !.original_groups = vertex_groups, !.original_weight = weight]

\* WEIGHT_OT_export_weights.execute
Export ==
    /\ pc = "ready"
    /\ file' = ExportData(vertex_groups, co, weight)
    /\ call' = [ExportCall("export") EXCEPT !.report = "Successfully exported weights"]
    /\ pc' = "exported"
    /\ UNCHANGED <<vertex_groups, co, select, weight, selected_only, clipboard>>
    /\ UNCHANGED <<armatureVars, presetVars, addonVars>>

\* WEIGHT_OT_copy_weights.execute
Copy ==
    /\ pc = "ready"
    /\ clipboard' = ExportData(vertex_groups, co, weight)
    /\ call' = [ExportCall("copy") EXCEPT !.report = "Successfully copied weights"]
    /\ pc' = "exported"
    /\ UNCHANGED <<vertex_groups, co, select, weight, selected_only, file>>
    /\ UNCHANGED <<armatureVars, presetVars, addonVars>>

\* ------------------------------------------------------ import / paste
\* any(v.select for v in context.active_object.data.vertices) is false
\* while selected_only is set
\* (faulty variant: the selection check is left out)
SelectionMissingBug(sel_only, sel) == FALSE
SelectionMissing(sel_only, sel) == sel_only /\ ~(\E v \in DOMAIN sel : sel[v])

\* not vertex_data
\* (faulty variant: an empty vertices array is let through)
EmptyDataBug(vertex_data) == FALSE
EmptyData(vertex_data) == vertex_data = <<>>

\* "Create missing vertex groups": a group is appended for each name of
\* import_data["vertex_groups"] that is not in existing_groups, the groups
\* the mesh had before the loop.
RECURSIVE CreateMissingGroups(_, _, _, _)
CreateMissingGroups(groups, existing_groups, names, i) ==
    IF i > Len(names) THEN groups
    ELSE IF names[i] \notin existing_groups
         THEN CreateMissingGroups(Append(groups, names[i]), existing_groups, names, i + 1)
         ELSE CreateMissingGroups(groups, existing_groups, names, i + 1)

\* kd.insert(Vector(data["coord"]), i) raises on an entry without "coord"
CoordsReadable(vertex_data) == \A i \in DOMAIN vertex_data : vertex_data[i].coord # NoCoord

\* Squared length of (source_pos - vertex_global)
DistSq(p, q) ==
    (p[1] - q[1]) * (p[1] - q[1]) + (p[2] - q[2]) * (p[2] - q[2])
        + (p[3] - q[3]) * (p[3] - q[3])

\* The source indices kd.find may return for p: a nearest point of the tree.
\* Which of several equally near points the tree returns is decided by the
\* layout kd.balance() gave it, not by the insertion order.
\* (faulty variant: the comparison is reversed, the farthest point wins)
KDFindBug(vertex_data, p) ==
    IF vertex_data = <<>> THEN {NoIndex}
    ELSE {i \in DOMAIN vertex_data :
            \A j \in DOMAIN vertex_data :
                DistSq(vertex_data[i].coord, p) >= DistSq(vertex_data[j].coord, p)}
KDFind(vertex_data, p) ==
    IF vertex_data = <<>> THEN {NoIndex}
    ELSE {i \in DOMAIN vertex_data :
            \A j \in DOMAIN vertex_data :
                DistSq(vertex_data[i].coord, p) <= DistSq(vertex_data[j].coord, p)}

\* kd.find_range(vertex_global, max_distance): the points within the radius
\* (faulty variant: the radius is ignored)
KDFindRangeBug(vertex_data, p, radius) == DOMAIN vertex_data
KDFindRange(vertex_data, p, radius) ==
    {i \in DOMAIN vertex_data : DistSq(vertex_data[i].coord, p) <= radius * radius}

\* matches[0] of find_range, whose result is ordered by distance; NoIndex
\* when matches is empty (the vertex is skipped by continue).
ClosestInRange(vertex_data, p, radius) ==
    LET matches == KDFindRange(vertex_data, p, radius)
    IN  IF matches = {} THEN {NoIndex}
        ELSE {i \in matches :
                \A j \in matches :
                    DistSq(vertex_data[i].coord, p) <= DistSq(vertex_data[j].coord, p)}

\* "Find closest vertex in source data" of import
\* (faulty variant: the first source vertex is taken without a search)
FindClosestBug(vertex_data, p, max_distance) ==
    IF vertex_data = <<>> THEN {NoIndex} ELSE {1}
FindClosest(vertex_data, p, max_distance) ==
    IF max_distance > 0 THEN ClosestInRange(vertex_data, p, max_distance)
    ELSE KDFind(vertex_data, p)

\* The lookups one balanced tree can answer: one source index per query point.
Lookups(vertex_data, max_distance) ==
    LET queries == {co[v] : v \in DOMAIN co}
    IN  IF CoordsReadable(vertex_data)
        THEN {f \in [queries -> 0..Len(vertex_data)] :
                \A p \in queries : f[p] \in FindClosest(vertex_data, p, max_distance)}
        ELSE {[p \in queries |-> NoIndex]}

\* (faulty variant: the selected_only setting is not read)
TargetVerticesBug(sel_only, sel, v) == [i \in 1..(Len(sel) + 1 - v) |-> v + i - 1]

\* "Process vertices": the selected vertices, or all of them, in index order
RECURSIVE TargetVertices(_, _, _)
TargetVertices(sel_only, sel, v) ==
    IF v > Len(sel) THEN <<>>
    ELSE IF sel_only /\ ~sel[v] THEN TargetVertices(sel_only, sel, v + 1)
         ELSE <<v>> \o TargetVertices(sel_only, sel, v + 1)

\* The loop that fills weight_operations: a vertex without a match in range
\* is skipped, every other vertex is paired with its closest source vertex.
RECURSIVE WeightOperations(_, _, _, _, _)
WeightOperations(vertices, coords, vertex_data, closest, k) ==
    IF k > Len(vertices) THEN <<>>
    ELSE LET closest_idx == closest[coords[vertices[k]]]
             rest == WeightOperations(vertices, coords, vertex_data, closest, k + 1)
         IN  IF closest_idx = NoIndex THEN rest
             ELSE <<[vertex |-> vertices[k], closest_idx |-> closest_idx,
                     weights |-> vertex_data[closest_idx].weights]>> \o rest

\* "First, clear weights for affected vertices": group.remove([vertex_idx])
\* for every group of the mesh
ClearWeights(wt, ops) ==
    [v \in DOMAIN wt |->
        IF \E k \in DOMAIN ops : ops[k].vertex = v
        THEN [b \in BoneNames |-> NoWeight]
        ELSE wt[v]]

\* The inner loop of "Then apply new weights" for one vertex: an entry whose
\* bone is a group of the mesh is written with 'REPLACE', any other entry is
\* passed over; an entry without "bone" raises.
RECURSIVE ApplyEntries(_, _, _, _, _)
ApplyEntries(wt, groups, v, weights, k) ==
    IF k > Len(weights) THEN [weight |-> wt, ok |-> TRUE]
    ELSE LET weight_info == weights[k]
         IN  IF weight_info.bone = MissingKey THEN [weight |-> wt, ok |-> FALSE]
             ELSE IF weight_info.bone \in Range(groups)
                  THEN ApplyEntries([wt EXCEPT ![v][weight_info.bone] = weight_info.weight],
                                    groups, v, weights, k + 1)
                  ELSE ApplyEntries(wt, groups, v, weights, k + 1)

\* "Then apply new weights": the outer loop over weight_operations
RECURSIVE ApplyOperations(_, _, _, _)
ApplyOperations(wt, groups, ops, k) ==
    IF k > Len(ops) THEN [weight |-> wt, ok |-> TRUE]
    ELSE LET r == ApplyEntries(wt, groups, ops[k].vertex, ops[k].weights, 1)
         IN  IF r.ok THEN ApplyOperations(r.weight, groups, ops, k + 1) ELSE r

\* vertex_group_move UP / DOWN repeated until the group at index from is at to
MoveGroup(groups, from, to) ==
    LET without == SubSeq(groups, 1, from - 1) \o SubSeq(groups, from + 1, Len(groups))
    IN  SubSeq(without, 1, to - 1) \o <<groups[from]>> \o SubSeq(without, to, Len(without))

\* A reorder loop that leaves the groups in reversed order
RestoreOrderBug(current_groups, original_groups, target_idx) ==
    [i \in 1..Len(current_groups) |-> current_groups[Len(current_groups) + 1 - i]]

\* "Reorder vertex groups to match original order"
RECURSIVE RestoreOrder(_, _, _)
RestoreOrder(current_groups, original_groups, target_idx) ==
    IF target_idx > Len(original_groups) THEN current_groups
    ELSE LET group_name == original_groups[target_idx]
         IN  IF group_name \in Range(current_groups)
                  /\ IndexOf(current_groups, group_name) # target_idx
             THEN RestoreOrder(MoveGroup(current_groups,
                                         IndexOf(current_groups, group_name), target_idx),
                               original_groups, target_idx + 1)
             ELSE RestoreOrder(current_groups, original_groups, target_idx + 1)

\* The single-file add-on's search for the closest source vertex
\* (blender-bone-tools.py): a scan in array order that replaces the best
\* match only on a strictly smaller distance.
RECURSIVE LinearScan(_, _, _, _)
LinearScan(vertex_data, p, k, closest) ==
    IF k > Len(vertex_data) THEN closest
    ELSE IF closest = NoIndex
            \/ DistSq(vertex_data[k].coord, p) < DistSq(vertex_data[closest].coord, p)
         THEN LinearScan(vertex_data, p, k + 1, k)
         ELSE LinearScan(vertex_data, p, k + 1, closest)

\* What an invocation leaves behind: the return value, the report, and the mesh.
Outcome(result, report, groups, wt, ops) ==
    [result |-> result, report |-> report, vertex_groups |-> groups, weight |-> wt,
     weight_operations |-> ops]

\* The part import and paste run after validation, from "Store original
\* vertex group order" to the return; failed is the report of the except
\* clause, finished the report of a successful run.
Transfer(import_data, max_distance, closest, failed, finished) ==
    LET vertex_data == import_data.vertices
        original_groups == vertex_groups
        created == CreateMissingGroups(vertex_groups, Range(vertex_groups),
                                       import_data.vertex_groups, 1)
        vertices == TargetVertices(selected_only, select, 1)
    IN  IF ~CoordsReadable(vertex_data)
        THEN Outcome("CANCELLED", failed, created, weight, <<>>)
        ELSE IF \E k \in DOMAIN vertices :
                    max_distance = 0 /\ closest[co[vertices[k]]] = NoIndex
        THEN Outcome("CANCELLED", failed, created, weight, <<>>)
        ELSE LET ops == WeightOperations(vertices, co, vertex_data, closest, 1)
                 applied == ApplyOperations(ClearWeights(weight, ops), created, ops, 1)
             IN  IF ~applied.ok
                 THEN Outcome("CANCELLED", failed, created, applied.weight, ops)
                 ELSE Outcome("FINISHED", finished,
                              RestoreOrder(created, original_groups, 1), applied.weight, ops)

\* WEIGHT_OT_import_weights.execute
ImportExecute(import_data, max_distance, closest) ==
    IF SelectionMissing(selected_only, select)
    THEN Outcome("CANCELLED", "Please select vertices in Edit Mode first",
                 vertex_groups, weight, <<>>)
    ELSE IF import_data.kind \in {"missing", "notjson"}
    THEN Outcome("CANCELLED", "Failed to import weights", vertex_groups, weight, <<>>)
    ELSE IF import_data.kind \in {"notdict", "nokeys"}
    THEN Outcome("CANCELLED", "Invalid weight file format", vertex_groups, weight, <<>>)
    ELSE IF EmptyData(import_data.vertices)
    THEN Outcome("CANCELLED", "Weight file is empty", vertex_groups, weight, <<>>)
    ELSE Transfer(import_data, max_distance, closest,
                  "Failed to import weights", "Successfully imported weights")

\* (faulty variant: a paste that creates no vertex group)
PasteExecuteBug(import_data, closest) ==
    LET out == ImportExecute(import_data, 0, closest)
    IN  Outcome(out.result, out.report, vertex_groups, out.weight, out.weight_operations)

\* WEIGHT_OT_paste_weights.execute
PasteExecute(import_data, closest) ==
    IF SelectionMissing(selected_only, select)
    THEN Outcome("CANCELLED", "Please select vertices in Edit Mode first",
                 vertex_groups, weight, <<>>)
    ELSE IF import_data.kind = "missing"
    THEN Outcome("CANCELLED", "No data in clipboard", vertex_groups, weight, <<>>)
    ELSE IF import_data.kind = "notjson"
    THEN Outcome("CANCELLED", "Invalid JSON data in clipboard", vertex_groups, weight, <<>>)
    ELSE IF import_data.kind \in {"notdict", "nokeys"}
    THEN Outcome("CANCELLED", "Invalid weight data format", vertex_groups, weight, <<>>)
    ELSE IF EmptyData(import_data.vertices)
    THEN Outcome("CANCELLED", "Weight data is empty", vertex_groups, weight, <<>>)
    ELSE Transfer(import_data, 0, closest,
                  "Failed to paste weights", "Successfully pasted weights")

Record(op, import_data, max_distance, out) ==
    [op |-> op, max_distance |-> max_distance, result |-> out.result,
     report |-> out.report, original_groups |-> vertex_groups,
     original_weight |-> weight, import_data |-> import_data,
     weight_operations |-> out.weight_operations]

Import ==
    /\ pc = "exported"
    /\ \E max_distance \in Distances :
       \E closest \in Lookups(file.vertices, max_distance) :
          LET out == ImportExecute(file, max_distance, closest)
          IN  /\ vertex_groups' = out.vertex_groups
              /\ weight' = out.weight
              /\ call' = Record("import", file, max_distance, out)
    /\ pc' = "done"
    /\ UNCHANGED <<co, select, selected_only, file, clipboard>>
    /\ UNCHANGED <<armatureVars, presetVars, addonVars>>

Paste ==
    /\ pc = "exported"
    /\ \E closest \in Lookups(clipboard.vertices, 0) :
          LET out == PasteExecute(clipboard, closest)
          IN  /\ vertex_groups' = out.vertex_groups
              /\ weight' = out.weight
              /\ call' = Record("paste", clipboard, 0, out)
    /\ pc' = "done"
    /\ UNCHANGED <<co, select, selected_only, file, clipboard>>
    /\ UNCHANGED <<armatureVars, presetVars, addonVars>>

\* ---------------------------------------------------------- initial states
\* A mesh with painted weights and no payload written yet.
InitRoundTrip ==
    \E n \in 0..MaxVerts :
        /\ vertex_groups \in {<<>>, <<"B">>, <<"B", "A">>}
        /\ co \in [1..n -> Points]
        /\ select = [v \in 1..n |-> FALSE]
        /\ weight \in [1..n -> [BoneNames -> PaintedWeights]]
        /\ \A v \in 1..n : \A b \in BoneNames \ Range(vertex_groups) : weight[v][b] = NoWeight
        /\ selected_only = FALSE
        /\ file = MissingPayload
        /\ clipboard = MissingPayload
        /\ pc = "ready"
        /\ call = NoCall

\* A painted mesh and a payload whose source vertices lie anywhere: every
\* vertex is in group A with weight 1, source vertex i carries weight i of
\* bone B.
SourcePoints(coords) ==
    [i \in DOMAIN coords |->
        [coord |-> coords[i], weights |-> <<[bone |-> "B", weight |-> i]>>]]

InitNearest ==
    \E n \in 0..MaxVerts, m \in 0..MaxSrc :
        /\ vertex_groups = <<"A">>
        /\ co \in [1..n -> Points]
        /\ select \in [1..n -> BOOLEAN]
        /\ weight = [v \in 1..n |-> [b \in BoneNames |-> IF b = "A" THEN 1 ELSE NoWeight]]
        /\ selected_only \in BOOLEAN
        /\ \E coords \in [1..m -> Points] :
              file = [kind |-> "ok", vertex_groups |-> <<"B">>,
                      vertices |-> SourcePoints(coords)]
        /\ clipboard = file
        /\ pc = "exported"
        /\ call = NoCall

\* The payloads a file or the clipboard can hold: text that is no JSON, JSON
\* that is no object or lacks a key, and objects of the exchange format with
\* one source vertex at the origin, whose entries may lack "coord" or "bone"
\* and may name any bone with any weight.
WeightEntries == [bone : BoneNames \cup {MissingKey}, weight : WeightValues]

SourceVertices == [coord : {Origin, NoCoord}, weights : SeqsUpTo(WeightEntries, 2)]

Payloads ==
    {[kind |-> k, vertex_groups |-> <<>>, vertices |-> <<>>] :
        k \in {"missing", "notjson", "notdict", "nokeys"}}
    \cup [kind : {"ok"}, vertex_groups : GroupLists, vertices : SeqsUpTo(SourceVertices, 1)]

\* Any payload on a mesh at the origin whose vertices are in any of its groups.
InitApply ==
    \E n \in 0..MaxVerts :
        /\ vertex_groups \in {<<>>, <<"A">>, <<"A", "B">>}
        /\ co = [v \in 1..n |-> Origin]
        /\ select = [v \in 1..n |-> FALSE]
        /\ weight \in [1..n -> [BoneNames -> {NoWeight, 1}]]
        /\ \A v \in 1..n : \A b \in BoneNames \ Range(vertex_groups) : weight[v][b] = NoWeight
        /\ selected_only = FALSE
        /\ file \in Payloads
        /\ clipboard = file
        /\ pc = "exported"
        /\ call = NoCall

\* The weight operators act on a mesh: no armature is in edit mode and the
\* preset store is not read.
NoArmature ==
    /\ parent = <<>>
    /\ edit_bones = <<>>
    /\ selected_bones = <<>>
    /\ prefix = ""

NoPresets ==
    /\ presets = <<>>
    /\ source_preset = "NONE"
    /\ target_preset = "NONE"

\* The add-on's update check is not running and nothing is being installed.
NoUpdate ==
    /\ installed = <<>>
    /\ release = <<>>
    /\ today = 0
    /\ last_update_check = ""
    /\ scene_type = <<>>
    /\ registered = FALSE
    /\ timers = {}
    /\ threads = <<>>
    /\ latest_tag_name = ""
    /\ window_manager = <<>>
    /\ dialog = FALSE

NoInstall ==
    /\ addon_dir = <<>>
    /\ package = <<>>

NoAddon == NoUpdate /\ NoInstall

Init ==
    /\ InitRoundTrip \/ InitNearest \/ InitApply
    /\ NoArmature
    /\ NoPresets
    /\ NoAddon

Next == Export \/ Copy \/ Import \/ Paste

Spec == Init /\ [][Next]_vars

\* ---------------------------------------------------------------- claims
Transferred == call.op \in {"import", "paste"}

\* The vertices import and paste process
Targets == {v \in DOMAIN co : ~selected_only \/ select[v]}

\* The (bone, weight) pairs of a vertex with weight > 0
Positive(w) == {<<b, w[b]>> : b \in {x \in BoneNames : w[x] > 0}}

\* A payload of the exchange format with source vertices, whose entries
\* all have their keys
WellFormed(import_data) ==
    /\ import_data.kind = "ok"
    /\ import_data.vertices # <<>>
    /\ CoordsReadable(import_data.vertices)
    /\ \A i \in DOMAIN import_data.vertices :
          \A k \in DOMAIN import_data.vertices[i].weights :
              import_data.vertices[i].weights[k].bone # MissingKey

\* The payload read is the export of the mesh it is transferred onto, with
\* unlimited distance.
RoundTrip ==
    /\ Transferred
    /\ call.max_distance = 0
    /\ call.import_data = ExportData(call.original_groups, co, call.original_weight)

WeightsReproduced ==
    \A v \in DOMAIN weight : Positive(weight[v]) = Positive(call.original_weight[v])

\* C1 as stated: for a mesh with at least one weighted vertex, exporting and
\* transferring back with max_distance = 0 leaves every vertex with exactly
\* the weight list it had.
C1_RoundTripAnyMesh ==
    (RoundTrip /\ \E v \in DOMAIN weight : Positive(call.original_weight[v]) # {})
        => WeightsReproduced

\* C1 amended: when every vertex of the mesh has a weight > 0 and vertices at
\* the same position have equal weight lists, exporting and transferring back
\* with max_distance = 0 leaves every vertex with exactly the list of
\* positive weights it had.
C1_RoundTrip ==
    (/\ RoundTrip
     /\ \A v \in DOMAIN weight : Positive(call.original_weight[v]) # {}
     /\ \A u, v \in DOMAIN weight :
            co[u] = co[v] => Positive(call.original_weight[u]) = Positive(call.original_weight[v]))
        => WeightsReproduced

C1_Witness ==
    /\ RoundTrip
    /\ call.op = "import"
    /\ call.result = "FINISHED"
    /\ Len(weight) = MaxVerts
    /\ \A v \in DOMAIN weight : Positive(call.original_weight[v]) # {}
    /\ \A u, v \in DOMAIN weight : u # v => co[u] # co[v]
    /\ \E u, v \in DOMAIN weight : Positive(call.original_weight[u]) # Positive(call.original_weight[v])
    /\ \E v \in DOMAIN weight : \E b \in BoneNames : call.original_weight[v][b] = 0

\* C2: with max_distance = 0 and a well-formed non-empty source the call
\* finishes, every target vertex is matched, and no source vertex is
\* strictly closer to a target than the one it is matched to.
C2_GlobalNearest ==
    (Transferred /\ call.max_distance = 0 /\ WellFormed(call.import_data)
        /\ ~SelectionMissing(selected_only, select))
    => /\ call.result = "FINISHED"
       /\ \A v \in Targets :
            \E k \in DOMAIN call.weight_operations :
                LET op == call.weight_operations[k]
                    vertex_data == call.import_data.vertices
                IN  /\ op.vertex = v
                    /\ op.closest_idx \in DOMAIN vertex_data
                    /\ \A j \in DOMAIN vertex_data :
                          DistSq(vertex_data[op.closest_idx].coord, co[v])
                              <= DistSq(vertex_data[j].coord, co[v])

C2_Witness ==
    /\ Transferred /\ call.max_distance = 0 /\ call.result = "FINISHED"
    /\ Cardinality(Targets) = MaxVerts
    /\ \E k \in DOMAIN call.weight_operations :
          LET op == call.weight_operations[k]
              vertex_data == call.import_data.vertices
          IN  /\ op.closest_idx > 1
              /\ DistSq(vertex_data[op.closest_idx].coord, co[op.vertex])
                    < DistSq(vertex_data[1].coord, co[op.vertex])

\* C3 as stated: with max_distance = 0 the source index the lookup returns
\* is the one a scan in array order keeping the first strict minimum returns.
C3_FirstInSourceOrder ==
    (Transferred /\ call.max_distance = 0 /\ call.result = "FINISHED")
    => \A k \in DOMAIN call.weight_operations :
          call.weight_operations[k].closest_idx
              = LinearScan(call.import_data.vertices,
                           co[call.weight_operations[k].vertex], 1, NoIndex)

\* A vertex farther than the call's max_distance from every source vertex
OutOfRange(v) ==
    \A j \in DOMAIN call.import_data.vertices :
        DistSq(call.import_data.vertices[j].coord, co[v])
            > call.max_distance * call.max_distance

\* C4: with max_distance = d > 0 a target farther than d from every source
\* vertex produces no entry of weight_operations and keeps, in every vertex
\* group, the weight it had before the import.
C4_OutOfRangeUntouched ==
    (call.op = "import" /\ call.max_distance > 0 /\ WellFormed(call.import_data))
    => \A v \in DOMAIN co :
          OutOfRange(v)
          => /\ \A k \in DOMAIN call.weight_operations :
                    call.weight_operations[k].vertex # v
             /\ weight[v] = call.original_weight[v]

C4_Witness ==
    /\ call.op = "import" /\ call.max_distance > 0 /\ call.result = "FINISHED"
    /\ \E u, v \in Targets :
          /\ OutOfRange(v)
          /\ call.original_weight[v]["A"] = 1
          /\ ~OutOfRange(u)
          /\ weight[u] # call.original_weight[u]

\* C5 as stated: after a successful import or paste every matched vertex has,
\* for each (bone, weight) of its matched source vertex, that weight in that
\* bone's group, and is in no other group.
C5_ClearThenSet ==
    (Transferred /\ call.result = "FINISHED")
    => \A k \in DOMAIN call.weight_operations :
          LET v == call.weight_operations[k].vertex
              weights == call.import_data.vertices[call.weight_operations[k].closest_idx].weights
          IN  /\ \A e \in DOMAIN weights : weight[v][weights[e].bone] = weights[e].weight
              /\ \A b \in BoneNames :
                    weight[v][b] # NoWeight => \E e \in DOMAIN weights : weights[e].bone = b

\* C6 as stated: an import or paste that ends in failure leaves the vertex
\* groups and all weights of the mesh as they were before the invocation.
C6_FailuresAtomic ==
    (Transferred /\ call.result = "CANCELLED")
    => /\ vertex_groups = call.original_groups
       /\ weight = call.original_weight

\* C7: a payload whose vertices array is empty makes import and paste fail,
\* with the empty-data error once the selection check has passed, and no
\* vertex group is created and no weight changed.
C7_EmptySourceRejected ==
    (Transferred /\ call.import_data.kind = "ok" /\ call.import_data.vertices = <<>>)
    => /\ call.result = "CANCELLED"
       /\ call.report = IF selected_only /\ Targets = {}
                        THEN "Please select vertices in Edit Mode first"
                        ELSE IF call.op = "import" THEN "Weight file is empty"
                        ELSE "Weight data is empty"
       /\ vertex_groups = call.original_groups
       /\ weight = call.original_weight

C7_Witness ==
    /\ Transferred /\ call.import_data.kind = "ok" /\ call.import_data.vertices = <<>>
    /\ call.report = "Weight file is empty"
    /\ Targets # {}
    /\ \E i \in DOMAIN call.import_data.vertex_groups :
          call.import_data.vertex_groups[i] \notin Range(vertex_groups)

\* C8 as stated: with a valid non-empty source an empty target set (a mesh
\* without vertices, or selected_only with no vertex selected) finishes
\* successfully with an empty result and changes no weight.
C8_EmptyTargetsFinish ==
    (Transferred /\ WellFormed(call.import_data) /\ Targets = {})
    => /\ call.result = "FINISHED"
       /\ call.weight_operations = <<>>
       /\ weight = call.original_weight

\* C8 amended: with a valid non-empty source a mesh without vertices, with
\* selected_only off, finishes successfully with an empty result and changes
\* no weight; with selected_only on and no vertex selected the invocation is
\* cancelled with "Please select vertices in Edit Mode first" and changes no
\* weight and no vertex group.
C8_EmptyTargets ==
    (Transferred /\ WellFormed(call.import_data) /\ Targets = {})
    => /\ call.weight_operations = <<>>
       /\ weight = call.original_weight
       /\ IF selected_only
          THEN /\ call.result = "CANCELLED"
               /\ call.report = "Please select vertices in Edit Mode first"
               /\ vertex_groups = call.original_groups
          ELSE call.result = "FINISHED"

C8_Witness ==
    /\ Transferred /\ WellFormed(call.import_data) /\ Targets = {}
    /\ ~selected_only
    /\ call.result = "FINISHED"
    /\ vertex_groups # call.original_groups

\* C9 as stated: for every payload import or paste accepts, each bone named
\* in the weight list of a matched source vertex is a vertex group of the
\* mesh when the weights are set, so that no entry is passed over.
C9_ReferencedGroupsExist ==
    (Transferred /\ call.result = "FINISHED")
    => \A k \in DOMAIN call.weight_operations :
          \A e \in DOMAIN call.weight_operations[k].weights :
              call.weight_operations[k].weights[e].bone \in Range(vertex_groups)

\* The vertices with a weight > 0 in some group
Weighted == {v \in DOMAIN weight : Positive(weight[v]) # {}}

\* The k-th weighted vertex in index order
NthWeighted(k) == CHOOSE v \in Weighted : Cardinality({u \in Weighted : u <= v}) = k

\* C10: export and copy emit, per vertex, exactly the (bone, weight) pairs
\* with weight > 0, in vertex-group order (a vertex without such a pair has
\* no entry), and vertex_groups is the mesh's complete group list in order.
C10_ExportContents ==
    call.op \in {"export", "copy"}
    => LET export_data == IF call.op = "export" THEN file ELSE clipboard
       IN  /\ export_data.vertex_groups = vertex_groups
           /\ Len(export_data.vertices) = Cardinality(Weighted)
           /\ \A k \in DOMAIN export_data.vertices :
                 LET weights == export_data.vertices[k].weights
                 IN  /\ export_data.vertices[k].coord = co[NthWeighted(k)]
                     /\ {<<weights[e].bone, weights[e].weight>> : e \in DOMAIN weights}
                            = Positive(weight[NthWeighted(k)])
                     /\ \A e, f \in DOMAIN weights :
                            e < f => IndexOf(vertex_groups, weights[e].bone)
                                        < IndexOf(vertex_groups, weights[f].bone)

C10_Witness ==
    /\ call.op = "export"
    /\ Len(vertex_groups) = 2
    /\ Len(weight) = MaxVerts
    /\ \E v \in DOMAIN weight :
          weight[v][vertex_groups[1]] = 0 /\ weight[v][vertex_groups[2]] > 0
    /\ \E v \in DOMAIN weight : Positive(weight[v]) = {}
    /\ \A v \in DOMAIN weight : weight[v][vertex_groups[1]] <= 0

(***************************************************************************)
(* Chain renamer (src/modules/physbone_renamer.py): BONE_OT_rename_hair_   *)
(* chain names the selected bones Prefix_n_n_n: main chain, sub-chain and  *)
(* bone number.  Bones are numbered in armature order; bone.children lists *)
(* a bone's children in that order.                                        *)
(***************************************************************************)
MaxBones == 6

\* bone.parent is None
NoBone == 0
\* the values the prefix property is given
BonePrefixes == {"", "P"}

\* bone.children
Children(bone) == SelectSeq([b \in DOMAIN parent |-> b], LAMBDA b : parent[b] = bone)

get_chain_name(pfx, main_chain_num, chain_id, bone_num) ==
    IF pfx # ""
    THEN pfx \o "_" \o ToString(main_chain_num) \o "_" \o ToString(chain_id)
             \o "_" \o ToString(bone_num)
    ELSE "_" \o ToString(main_chain_num) \o "_" \o ToString(chain_id)
             \o "_" \o ToString(bone_num)

SelectedChildrenBug(bone) == Children(bone)

\* children = [b for b in bone.children if b in self.selected_bones]
SelectedChildren(bone) ==
    SelectSeq(Children(bone), LAMBDA b : b \in Range(selected_bones))

FirstChildArgsBug(chain_id, bone_num, next_chain_id) ==
    <<chain_id, bone_num, next_chain_id>>

\* the (chain_id, bone_num, next_chain_id) children[0] is processed with
FirstChildArgs(chain_id, bone_num, next_chain_id) ==
    <<chain_id, bone_num + 1, next_chain_id>>

OtherChildArgsBug(current_next_chain_id) ==
    <<current_next_chain_id, 1, current_next_chain_id>>

\* the (chain_id, bone_num, next_chain_id) a child of children[1:] is processed with
OtherChildArgs(current_next_chain_id) ==
    <<current_next_chain_id, 1, current_next_chain_id + 1>>

\* st carries the bone names, the calls of process_bone_chain made so far
\* (walk) and the value the last call returned (next_chain_id).
RECURSIVE process_bone_chain(_, _, _, _, _, _, _)
RECURSIVE OtherChildren(_, _, _, _)

process_bone_chain(st, bone, pfx, main_chain_num, chain_id, bone_num, next_chain_id) ==
    LET named ==
            [names |-> [st.names EXCEPT
                          ![bone] = get_chain_name(pfx, main_chain_num, chain_id, bone_num)],
             walk |-> Append(st.walk, [bone |-> bone, main_chain_num |-> main_chain_num,
                                       chain_id |-> chain_id, bone_num |-> bone_num]),
             next_chain_id |-> next_chain_id]
        children == SelectedChildren(bone)
    IN  IF children = <<>>
        THEN named
        ELSE LET args == FirstChildArgs(chain_id, bone_num, next_chain_id)
                 first == process_bone_chain(named, children[1], pfx, main_chain_num,
                                             args[1], args[2], args[3])
             IN  OtherChildren(first, Tail(children), pfx, main_chain_num)

\* for child in children[1:]
OtherChildren(st, children, pfx, main_chain_num) ==
    IF children = <<>>
    THEN st
    ELSE LET args == OtherChildArgs(st.next_chain_id)
         IN  OtherChildren(
                 process_bone_chain(st, Head(children), pfx, main_chain_num,
                                    args[1], args[2], args[3]),
                 Tail(children), pfx, main_chain_num)

NoSelectionBug(selected) == FALSE

\* if not self.selected_bones
NoSelection(selected) == selected = <<>>

RootBonesBug(selected) == SelectSeq(selected, LAMBDA b : parent[b] = NoBone)

\* root_bones = [b for b in self.selected_bones
\*               if not b.parent or b.parent not in self.selected_bones]
RootBones(selected) ==
    SelectSeq(selected, LAMBDA b : parent[b] = NoBone \/ parent[b] \notin Range(selected))

NoRootsBug(root_bones) == FALSE

\* if not root_bones
NoRoots(root_bones) == root_bones = <<>>

RootCallBug(st, root, pfx, i) ==
    process_bone_chain(st, root, pfx, i, 1, 1, st.next_chain_id)

\* self.process_bone_chain(root, prefix, i, 1, 1, 2)
RootCall(st, root, pfx, i) == process_bone_chain(st, root, pfx, i, 1, 1, 2)

\* for i, root in enumerate(root_bones, 1)
RECURSIVE RenameRoots(_, _, _, _)
RenameRoots(st, root_bones, pfx, i) ==
    IF i > Len(root_bones)
    THEN st
    ELSE RenameRoots(RootCall(st, root_bones[i], pfx, i), root_bones, pfx, i + 1)

RenameOutcome(result, level, report, root_bones, st) ==
    [result |-> result, level |-> level, report |-> report,
     root_bones |-> root_bones, names |-> st.names, walk |-> st.walk]

\* BONE_OT_rename_hair_chain.execute
RenameExecute ==
    LET st == [names |-> edit_bones, walk |-> <<>>, next_chain_id |-> 2]
        root_bones == RootBones(selected_bones)
    IN  IF NoSelection(selected_bones)
        THEN RenameOutcome("CANCELLED", "ERROR", "No bones selected", <<>>, st)
        ELSE IF NoRoots(root_bones)
        THEN RenameOutcome("CANCELLED", "ERROR", "No root bones found in selection",
                           root_bones, st)
        ELSE RenameOutcome("FINISHED", "", "", root_bones,
                           RenameRoots(st, root_bones, prefix, 1))

Rename ==
    /\ call = NoCall
    /\ LET out == RenameExecute
       IN  /\ edit_bones' = out.names
           /\ call' = [op |-> "rename", result |-> out.result,
                       level |-> out.level, report |-> out.report,
                       original_names |-> edit_bones, root_bones |-> out.root_bones,
                       walk |-> out.walk]
    /\ UNCHANGED <<meshVars, parent, selected_bones, prefix, presetVars, addonVars>>

\* ---------------------------------------------------------- initial states
\* The armature operators act on an armature: no mesh is active.
NoMesh ==
    /\ vertex_groups = <<>>
    /\ co = <<>>
    /\ select = <<>>
    /\ weight = <<>>
    /\ selected_only = FALSE
    /\ file = MissingPayload
    /\ clipboard = MissingPayload
    /\ pc = "ready"

\* the names of a new armature's bones
DefaultNames(bones) == [b \in bones |-> "Bone." \o ToString(b)]

\* The parent relations of n bones listed depth-first: each bone after its
\* parent and right after the bones below its elder siblings.  Every forest
\* with every order of each bone's children is one of them.
Hierarchies(n) ==
    {p \in [1..n -> {NoBone} \cup 1..n] :
        /\ \A b \in 1..n : p[b] < b
        /\ \A b, c \in 1..n : b < c => (p[c] >= b \/ p[c] <= p[b])}

Descending(S) ==
    LET up == SelectSeq([b \in DOMAIN parent |-> b], LAMBDA b : b \in S)
    IN  [i \in DOMAIN up |-> up[Len(up) + 1 - i]]

\* a list read from any of its places on, wrapping round
Rotations(s) ==
    IF s = <<>>
    THEN {<<>>}
    ELSE {[i \in DOMAIN s |-> s[((i + k - 1) % Len(s)) + 1]] : k \in 0..(Len(s) - 1)}

\* The orders the host lists a set of bones in.  execute reads the order of
\* the bones that have no selected parent only: those are listed last, in
\* descending order from any of them on.
SelectionOrders(S) ==
    LET top == {b \in S : parent[b] = NoBone \/ parent[b] \notin S}
    IN  {Descending(S \ top) \o r : r \in Rotations(Descending(top))}

\* An armature whose hierarchy is a forest, as the host keeps it: any of its
\* bones selected under the prefix "P", or all of them under any prefix.
InitRename ==
    /\ parent \in Hierarchies(MaxBones)
    /\ edit_bones = DefaultNames(1..MaxBones)
    /\ \/ /\ selected_bones \in UNION {SelectionOrders(S) : S \in SUBSET (1..MaxBones)}
          /\ prefix = "P"
       \/ /\ selected_bones \in SelectionOrders(1..MaxBones)
          /\ prefix \in BonePrefixes
    /\ NoMesh
    /\ NoPresets
    /\ NoAddon
    /\ call = NoCall

NextRename == Rename

SpecRename == InitRename /\ [][NextRename]_vars

\* A mock armature of three bones with any parent relation, a ring or a bone
\* that is its own parent included: the host builds no such armature.
MockBones == {1, 2, 3}

InitRenameMock ==
    /\ parent \in [MockBones -> {NoBone} \cup MockBones]
    /\ edit_bones = DefaultNames(MockBones)
    /\ selected_bones \in {s \in SeqsUpTo(MockBones, Cardinality(MockBones)) : NoDuplicates(s)}
    /\ prefix \in BonePrefixes
    /\ NoMesh
    /\ NoPresets
    /\ NoAddon
    /\ call = NoCall

SpecRenameMock == InitRenameMock /\ [][NextRename]_vars

\* ------------------------------------------------- chain renamer: claims
Renamed == call.op = "rename" /\ call.result = "FINISHED"

Selected == Range(selected_bones)

IsRoot(b) == b \in Selected /\ (parent[b] = NoBone \/ parent[b] \notin Selected)

\* the eldest selected child of a selected bone
IsFirstChild(b) ==
    /\ b \in Selected
    /\ ~IsRoot(b)
    /\ \A c \in Selected : parent[c] = parent[b] => b <= c

\* a selected child that is not the eldest: the head of a sub-chain
IsBranch(b) == b \in Selected /\ ~IsRoot(b) /\ ~IsFirstChild(b)

RECURSIVE RootOf(_)
RootOf(b) == IF IsRoot(b) THEN b ELSE RootOf(parent[b])

RECURSIVE ChainHead(_)
ChainHead(b) == IF IsFirstChild(b) THEN ChainHead(parent[b]) ELSE b

\* process_bone_chain was called once for every selected bone
EveryBoneWalked ==
    \A b \in Selected : Cardinality({i \in DOMAIN call.walk : call.walk[i].bone = b}) = 1

\* the arguments process_bone_chain was called with for bone b
Entry(b) == CHOOSE e \in Range(call.walk) : e.bone = b

\* the sub-chain heads below root r, in the order the walk reached them
Branches(r) == SelectSeq(call.walk, LAMBDA e : IsBranch(e.bone) /\ RootOf(e.bone) = r)

TripleName(m, c, b) ==
    prefix \o "_" \o ToString(m) \o "_" \o ToString(c) \o "_" \o ToString(b)

\* the k-th ancestor of bone b (NoBone above the top)
RECURSIVE Up(_, _)
Up(b, k) == IF k = 0 \/ b = NoBone THEN b ELSE Up(parent[b], k - 1)

\* the selection is one unbranched chain: a tip and the bones straight above it
ChainTips ==
    {t \in Selected :
        Selected = {Up(t, k) : k \in 0..(Cardinality(Selected) - 1)}}

IsChain == ChainTips # {}

\* C11: within one root's subtree the first selected child keeps its parent's
\* chain ID, the other selected children get the IDs 2, 3, 4, ... in the
\* order the walk reaches them, and no ID names two chains.
C11_ChainIds ==
    Renamed =>
        /\ EveryBoneWalked
        /\ \A b \in Selected :
              IsFirstChild(b) => Entry(b).chain_id = Entry(parent[b]).chain_id
        /\ \A r \in Selected :
              IsRoot(r) =>
                  LET heads == Branches(r)
                  IN  \A k \in DOMAIN heads : heads[k].chain_id = k + 1
        /\ \A a, b \in Selected :
              (RootOf(a) = RootOf(b) /\ Entry(a).chain_id = Entry(b).chain_id)
                  => ChainHead(a) = ChainHead(b)

\* a root with two selected children on chains 1 and 2, and a branch below
\* chain 2 that got chain 3
C11_Witness ==
    /\ Renamed
    /\ EveryBoneWalked
    /\ \E r, c, g \in Selected :
          /\ IsRoot(r)
          /\ Cardinality({x \in Selected : parent[x] = r}) = 2
          /\ parent[c] = r /\ IsBranch(c) /\ Entry(c).chain_id = 2
          /\ parent[g] = c /\ IsBranch(g) /\ Entry(g).chain_id = 3

\* C12: a bone named (m, c, b) gives its first selected child (m, c, b + 1)
\* and every other chain starts at bone number 1; each bone carries the name
\* of its triple, and a selection that is one unbranched chain is named
\* prefix_1_1_1, prefix_1_1_2, ... from root to tip.
C12_BoneNumbers ==
    Renamed =>
        /\ EveryBoneWalked
        /\ \A b \in Selected :
              LET e == Entry(b)
              IN  /\ edit_bones[b] = TripleName(e.main_chain_num, e.chain_id, e.bone_num)
                  /\ IsFirstChild(b) =>
                        LET p == Entry(parent[b])
                        IN  /\ e.main_chain_num = p.main_chain_num
                            /\ e.chain_id = p.chain_id
                            /\ e.bone_num = p.bone_num + 1
                  /\ ~IsFirstChild(b) => e.bone_num = 1
        /\ \A t \in ChainTips :
              \A k \in 0..(Cardinality(Selected) - 1) :
                  edit_bones[Up(t, k)] = prefix \o "_1_1_" \o ToString(Cardinality(Selected) - k)

\* a chain of three bones or more renamed under the prefix P
C12_Witness ==
    /\ Renamed
    /\ IsChain
    /\ Cardinality(Selected) >= 3
    /\ prefix = "P"
    /\ \E t \in ChainTips : edit_bones[t] = "P_1_1_" \o ToString(Cardinality(Selected))

\* C13: root_bones are the selected bones without a selected parent, in
\* selection order; the i-th of them gives main chain i to its whole subtree
\* and is itself chain 1, bone 1; the chain IDs below each root are
\* 1 .. 1 + the number of sub-chains below that root.
C13_Roots ==
    call.op = "rename" =>
        /\ Range(call.root_bones) = {b \in Selected : IsRoot(b)}
        /\ \A i, j \in DOMAIN call.root_bones :
              i < j => IndexOf(selected_bones, call.root_bones[i])
                           < IndexOf(selected_bones, call.root_bones[j])
        /\ Renamed =>
              /\ EveryBoneWalked
              /\ \A b \in Selected :
                    /\ call.root_bones[Entry(b).main_chain_num] = RootOf(b)
                    /\ IsRoot(b) => Entry(b).chain_id = 1 /\ Entry(b).bone_num = 1
              /\ \A r \in Selected :
                    IsRoot(r) =>
                        {Entry(b).chain_id : b \in {x \in Selected : RootOf(x) = r}}
                            = 1..(1 + Cardinality({x \in Selected :
                                                      IsBranch(x) /\ RootOf(x) = r}))

\* two roots listed against armature order, each with a sub-chain 2 below it
C13_Witness ==
    /\ Renamed
    /\ EveryBoneWalked
    /\ Len(call.root_bones) = 2
    /\ call.root_bones[1] > call.root_bones[2]
    /\ \E a, b \in Selected :
          /\ IsBranch(a) /\ RootOf(a) = call.root_bones[1]
          /\ IsBranch(b) /\ RootOf(b) = call.root_bones[2]
          /\ Entry(a).chain_id = 2 /\ Entry(a).main_chain_num = 1
          /\ Entry(b).chain_id = 2 /\ Entry(b).main_chain_num = 2

\* C14: with no bone selected the operator reports the error "No bones
\* selected", is cancelled and leaves every bone name as it was.
C14_NoSelection ==
    (call.op = "rename" /\ selected_bones = <<>>) =>
        /\ call.result = "CANCELLED"
        /\ call.level = "ERROR"
        /\ call.report = "No bones selected"
        /\ call.walk = <<>>
        /\ edit_bones = call.original_names

C14_Witness ==
    /\ call.op = "rename"
    /\ selected_bones = <<>>
    /\ edit_bones # <<>>
    /\ \E b \in DOMAIN parent : parent[b] # NoBone

\* C15: a non-empty selection without a root is reported as the error "No
\* root bones found in selection", the operator is cancelled, and no bone
\* was renamed before the check.
C15_NoRoot ==
    (call.op = "rename" /\ selected_bones # <<>> /\ ~\E b \in Selected : IsRoot(b)) =>
        /\ call.result = "CANCELLED"
        /\ call.level = "ERROR"
        /\ call.report = "No root bones found in selection"
        /\ call.walk = <<>>
        /\ edit_bones = call.original_names

\* a selected ring of two bones or more
C15_Witness ==
    /\ call.op = "rename"
    /\ Cardinality(Selected) >= 2
    /\ ~\E b \in Selected : IsRoot(b)

\* C16: over a forest a non-empty selection always has a root, so "No root
\* bones found in selection" is never reported, and a selection that is one
\* unbranched chain has exactly one root.
C16_RootExists ==
    (call.op = "rename" /\ selected_bones # <<>>) =>
        /\ call.root_bones # <<>>
        /\ call.report # "No root bones found in selection"
        /\ IsChain => Len(call.root_bones) = 1

\* a chain of two bones or more below an unselected parent
C16_Witness ==
    /\ call.op = "rename"
    /\ IsChain
    /\ Cardinality(Selected) >= 2
    /\ \E r \in Selected : IsRoot(r) /\ parent[r] # NoBone
    /\ Len(call.root_bones) = 1

(***************************************************************************)
(* Name converter (src/modules/name_matcher.py): ARMATURE_OT_convert_names *)
(* renames the bones that carry a name of the source preset to the name    *)
(* the target preset gives the same standard role.  A preset's "bones"     *)
(* table is the list of its (role, name) items in the order of the file.   *)
(***************************************************************************)
MaxNodes == 2

\* the keys of the presets in presets.json
PresetKeys == {"X", "Y"}
\* the standard names (roles) of the "bones" tables
Roles == {"hips", "spine"}
\* the names a table gives a role (the file may give an empty name)
PresetNames == {"", "a", "b", "c"}
\* the names the bones of the armature carry
NodeNames == {"a", "b", "c"}
\* dict.get of a key that is missing
None == "<None>"

BonesTables ==
    {t \in SeqsUpTo([role : Roles, name : PresetNames], Cardinality(Roles)) :
        \A i, j \in DOMAIN t : t[i].role = t[j].role => i = j}

EmptyDict == [k \in {} |-> None]

\* bones.get(standard_name)
BonesGet(bones, standard_name) ==
    IF \E i \in DOMAIN bones : bones[i].role = standard_name
    THEN bones[CHOOSE i \in DOMAIN bones : bones[i].role = standard_name].name
    ELSE None

\* presets.get(key) is None
PresetMissing(store, key) == key \notin DOMAIN store

IsTruthyBug(target_name) == target_name # None

\* if target_name
IsTruthy(target_name) == target_name \notin {None, ""}

\* name_mapping[source_name] = target_name
DictSet(dict, key, value) ==
    [k \in DOMAIN dict \cup {key} |-> IF k = key THEN value ELSE dict[k]]

\* for standard_name, source_name in source_preset["bones"].items()
RECURSIVE BuildMapping(_, _, _)
BuildMapping(name_mapping, source_bones, target_bones) ==
    IF source_bones = <<>>
    THEN name_mapping
    ELSE LET standard_name == Head(source_bones).role
             source_name == Head(source_bones).name
             target_name == BonesGet(target_bones, standard_name)
         IN  BuildMapping(IF IsTruthy(target_name)
                          THEN DictSet(name_mapping, source_name, target_name)
                          ELSE name_mapping,
                          Tail(source_bones), target_bones)

InMappingBug(name, name_mapping) ==
    name \in DOMAIN name_mapping /\ name_mapping[name] # name

\* if bone.name in name_mapping
InMapping(name, name_mapping) == name \in DOMAIN name_mapping

\* the loop with the assignment to bone.name left out
RECURSIVE ApplyMappingBug(_, _, _)
ApplyMappingBug(st, name_mapping, i) ==
    IF i > Len(st.names)
    THEN st
    ELSE LET seen == Append(st.visited, [bone |-> i, name |-> st.names[i]])
         IN  ApplyMappingBug(
                 IF st.names[i] \in DOMAIN name_mapping
                 THEN [st EXCEPT !.visited = seen, !.renamed_count = st.renamed_count + 1]
                 ELSE [st EXCEPT !.visited = seen],
                 name_mapping, i + 1)

\* for bone in armature.edit_bones: st carries the names, the bones visited
\* so far with the name each had when visited, and renamed_count
RECURSIVE ApplyMapping(_, _, _)
ApplyMapping(st, name_mapping, i) ==
    IF i > Len(st.names)
    THEN st
    ELSE LET seen == Append(st.visited, [bone |-> i, name |-> st.names[i]])
         IN  ApplyMapping(
                 IF InMapping(st.names[i], name_mapping)
                 THEN [names |-> [st.names EXCEPT ![i] = name_mapping[st.names[i]]],
                       visited |-> seen,
                       renamed_count |-> st.renamed_count + 1]
                 ELSE [st EXCEPT !.visited = seen],
                 name_mapping, i + 1)

SamePresetBug(source, target) == FALSE

\* if props.source_preset == props.target_preset
SamePreset(source, target) == source = target

ConvertCancelled(level, report, loaded) ==
    [result |-> "CANCELLED", level |-> level, report |-> report, loaded |-> loaded,
     name_mapping |-> EmptyDict, names |-> edit_bones, visited |-> <<>>,
     renamed_count |-> 0]

\* ARMATURE_OT_convert_names.execute
ConvertExecute ==
    IF SamePreset(source_preset, target_preset)
    THEN ConvertCancelled("WARNING", "Source and target are the same", FALSE)
    ELSE IF DOMAIN presets = {}
    THEN ConvertCancelled("ERROR", "Failed to load presets", TRUE)
    ELSE IF PresetMissing(presets, source_preset) \/ PresetMissing(presets, target_preset)
    THEN ConvertCancelled("ERROR", "Invalid preset selection", TRUE)
    ELSE LET name_mapping == BuildMapping(EmptyDict, presets[source_preset].bones,
                                          presets[target_preset].bones)
             st == ApplyMapping([names |-> edit_bones, visited |-> <<>>,
                                 renamed_count |-> 0], name_mapping, 1)
         IN  [result |-> "FINISHED", level |-> "INFO",
              report |-> IF st.renamed_count = 0
                         THEN "No matching bones found"
                         ELSE "Successfully renamed "
                                  \o ToString(st.renamed_count) \o " bones",
              loaded |-> TRUE, name_mapping |-> name_mapping,
              names |-> st.names, visited |-> st.visited,
              renamed_count |-> st.renamed_count]

\* the operator is run, and may be run once more on its own result
Convert ==
    /\ call = NoCall \/ (call.op = "convert" /\ call.runs = 1)
    /\ LET out == ConvertExecute
       IN  /\ edit_bones' = out.names
           /\ call' = [op |-> "convert",
                       runs |-> IF call = NoCall THEN 1 ELSE call.runs + 1,
                       previous_count |-> IF call = NoCall THEN 0 ELSE call.renamed_count,
                       result |-> out.result, level |-> out.level,
                       report |-> out.report, loaded |-> out.loaded,
                       name_mapping |-> out.name_mapping,
                       original_names |-> edit_bones, visited |-> out.visited,
                       renamed_count |-> out.renamed_count]
    /\ UNCHANGED <<meshVars, parent, selected_bones, prefix, presetVars, addonVars>>

\* ---------------------------------------------------------- initial states
\* the stores the file holds: unreadable or empty, one preset, two presets
PresetStores ==
    UNION {[keys -> [bones : BonesTables]] : keys \in {{}, {"X"}, PresetKeys}}

\* An armature of bones with distinct names, any store and any two keys
\* chosen in the panel.
InitConvert ==
    /\ presets \in PresetStores
    /\ source_preset \in PresetKeys
    /\ target_preset \in PresetKeys
    /\ edit_bones \in {s \in SeqsUpTo(NodeNames, MaxNodes) : NoDuplicates(s)}
    /\ parent = [b \in DOMAIN edit_bones |-> NoBone]
    /\ selected_bones = <<>>
    /\ prefix = ""
    /\ NoMesh
    /\ NoAddon
    /\ call = NoCall

NextConvert == Convert

SpecConvert == InitConvert /\ [][NextConvert]_vars

\* ------------------------------------------------ name converter: claims
Converted == call.op = "convert" /\ call.result = "FINISHED"

SourceBones == presets[source_preset].bones

TargetBones == presets[target_preset].bones

HasRole(bones, role) == \E i \in DOMAIN bones : bones[i].role = role

\* the standard roles both tables have
CommonRoles == {role \in Roles : HasRole(SourceBones, role) /\ HasRole(TargetBones, role)}

\* the common roles the target table gives a name that is not empty
NamedRoles == {role \in CommonRoles : BonesGet(TargetBones, role) # ""}

\* the last role of the source table, among NamedRoles, whose source name is k
LastRole(k) ==
    LET at == {i \in DOMAIN SourceBones :
                  SourceBones[i].role \in NamedRoles /\ SourceBones[i].name = k}
    IN  SourceBones[CHOOSE i \in at : \A j \in at : j <= i].role

\* C17 as stated: the mapping has the entry source.bones[role] ->
\* target.bones[role] for every role of both tables, and no other entry.
C17_EveryCommonRole ==
    Converted =>
        LET m == call.name_mapping
        IN  /\ \A role \in CommonRoles :
                  /\ BonesGet(SourceBones, role) \in DOMAIN m
                  /\ m[BonesGet(SourceBones, role)] = BonesGet(TargetBones, role)
            /\ \A k \in DOMAIN m :
                  \E role \in CommonRoles :
                      /\ k = BonesGet(SourceBones, role)
                      /\ m[k] = BonesGet(TargetBones, role)

\* C17, amended: the keys of the mapping are the source names of the roles
\* of both tables whose target name is not empty; a key is mapped to the
\* target name of the last such role, in the source table's order, that
\* carries it, which is target.bones[role] where no other role shares the
\* source name.
C17_Mapping ==
    Converted =>
        LET m == call.name_mapping
        IN  /\ DOMAIN m = {BonesGet(SourceBones, role) : role \in NamedRoles}
            /\ \A k \in DOMAIN m : m[k] = BonesGet(TargetBones, LastRole(k))
            /\ \A role \in NamedRoles :
                  (\A other \in NamedRoles :
                      BonesGet(SourceBones, other) = BonesGet(SourceBones, role)
                          => other = role)
                  => m[BonesGet(SourceBones, role)] = BonesGet(TargetBones, role)

\* a source table of two roles, one of them missing from the target table:
\* one entry, for the other role
C17_Witness ==
    /\ Converted
    /\ Len(SourceBones) = 2
    /\ Len(TargetBones) = 1
    /\ NamedRoles = CommonRoles
    /\ \E role \in CommonRoles :
          /\ DOMAIN call.name_mapping = {BonesGet(SourceBones, role)}
          /\ call.name_mapping[BonesGet(SourceBones, role)] = BonesGet(TargetBones, role)
          /\ BonesGet(SourceBones, role) # ""

\* C18: the mapping is the same for every order in which the items of the
\* source table are enumerated.
C18_OrderIndependent ==
    Converted =>
        \A t \in BonesTables :
            Range(t) = Range(SourceBones)
                => BuildMapping(EmptyDict, t, TargetBones) = call.name_mapping

\* C19: with the same preset as source and target the operator reports
\* "Source and target are the same" and is cancelled before load_presets is
\* called, a mapping is built or a bone is renamed.
C19_SamePreset ==
    (call.op = "convert" /\ source_preset = target_preset) =>
        /\ call.result = "CANCELLED"
        /\ call.level = "WARNING"
        /\ call.report = "Source and target are the same"
        /\ ~call.loaded
        /\ call.name_mapping = EmptyDict
        /\ call.visited = <<>>
        /\ edit_bones = call.original_names

\* the preset chosen twice is in the store and names a bone of the armature
C19_Witness ==
    /\ call.op = "convert"
    /\ source_preset = target_preset
    /\ source_preset \in DOMAIN presets
    /\ \E i \in DOMAIN SourceBones, b \in DOMAIN edit_bones :
          SourceBones[i].name = edit_bones[b]

\* C20: every bone is visited once, in armature order; a bone whose name
\* when visited is a key of the mapping gets the mapped name, every other
\* bone keeps its name; renamed_count is the number of bones set, and the
\* operator finishes with an INFO report, "No matching bones found" for 0.
C20_ApplyMapping ==
    Converted =>
        LET m == call.name_mapping
            old == call.original_names
        IN  /\ DOMAIN edit_bones = DOMAIN old
            /\ call.visited = [i \in DOMAIN old |-> [bone |-> i, name |-> old[i]]]
            /\ \A i \in DOMAIN old :
                  edit_bones[i] = IF old[i] \in DOMAIN m THEN m[old[i]] ELSE old[i]
            /\ call.renamed_count = Cardinality({i \in DOMAIN old : old[i] \in DOMAIN m})
            /\ call.level = "INFO"
            /\ call.report = IF call.renamed_count = 0
                             THEN "No matching bones found"
                             ELSE "Successfully renamed "
                                      \o ToString(call.renamed_count) \o " bones"

\* two bones, the first renamed to the name the second carried, the second
\* not a key and left alone
C20_Witness ==
    /\ Converted
    /\ Len(edit_bones) = 2
    /\ call.renamed_count = 1
    /\ call.original_names[1] \in DOMAIN call.name_mapping
    /\ edit_bones[1] = call.original_names[2]
    /\ edit_bones[2] = call.original_names[2]
    /\ call.report = "Successfully renamed 1 bones"

\* no mapped value of the mapping is also one of its keys
TargetsDisjoint(m) == \A k \in DOMAIN m : m[k] \notin DOMAIN m

\* C21: when no mapped value of the mapping is one of its keys, running the
\* conversion a second time right after the first renames 0 bones and
\* leaves every name as the first run left it.
C21_Idempotent ==
    (Converted /\ call.runs = 2 /\ TargetsDisjoint(call.name_mapping)) =>
        /\ call.renamed_count = 0
        /\ edit_bones = call.original_names
        /\ call.report = "No matching bones found"

\* the first run renamed both bones, the second none
C21_Witness ==
    /\ Converted
    /\ call.runs = 2
    /\ TargetsDisjoint(call.name_mapping)
    /\ call.previous_count = 2
    /\ call.renamed_count = 0
    /\ \A i \in DOMAIN edit_bones :
          \E k \in DOMAIN call.name_mapping : call.name_mapping[k] = edit_bones[i]

\* the (main chain, chain, bone number) process_bone_chain was called with
Triple(e) == <<e.main_chain_num, e.chain_id, e.bone_num>>

\* C22: one rename over a forest calls process_bone_chain once for every
\* selected bone and for no other bone, leaves the names of the unselected
\* bones alone, and gives no two selected bones the same triple or name.
C22_EachOnceDistinct ==
    Renamed =>
        /\ EveryBoneWalked
        /\ \A i \in DOMAIN call.walk : call.walk[i].bone \in Selected
        /\ \A b \in DOMAIN edit_bones :
              b \notin Selected => edit_bones[b] = call.original_names[b]
        /\ \A a, b \in Selected :
              a # b => /\ Triple(Entry(a)) # Triple(Entry(b))
                       /\ edit_bones[a] # edit_bones[b]

\* two roots, a sub-chain, and an unselected bone with a selected parent
C22_Witness ==
    /\ Renamed
    /\ EveryBoneWalked
    /\ Len(call.root_bones) = 2
    /\ \E b \in Selected : IsBranch(b)
    /\ \E b \in DOMAIN parent : b \notin Selected /\ parent[b] \in Selected
    /\ \E a, b \in Selected : edit_bones[a] = "P_1_2_1" /\ edit_bones[b] = "P_2_1_1"

\* ------------------------------------------- weight transfer: more claims
\* the entries of weight_operations for vertex v
Matches(v) == {k \in DOMAIN call.weight_operations : call.weight_operations[k].vertex = v}

\* a source vertex nearest to v lies within the call's max_distance
NearestInRange(v) ==
    \E i \in KDFind(call.import_data.vertices, co[v]) :
        DistSq(call.import_data.vertices[i].coord, co[v])
            <= call.max_distance * call.max_distance

LimitedImport ==
    /\ call.op = "import"
    /\ call.max_distance > 0
    /\ WellFormed(call.import_data)
    /\ ~SelectionMissing(selected_only, select)

\* C23 as stated: with max_distance = d > 0 a target is matched exactly when
\* its nearest source vertex is within d, and the match is the source vertex
\* the lookup of an import with max_distance = 0 returns, whichever that is.
C23_SameAsUnlimited ==
    LimitedImport =>
        \A v \in Targets :
            /\ Matches(v) # {} <=> NearestInRange(v)
            /\ \A k \in Matches(v) :
                  \A i \in KDFind(call.import_data.vertices, co[v]) :
                      call.weight_operations[k].closest_idx = i

\* The part of C23 that does not rest on the choice among equally near
\* source vertices: the match is one of the nearest source vertices.
NearestWithinRadius ==
    LimitedImport =>
        \A v \in Targets :
            /\ Matches(v) # {} <=> NearestInRange(v)
            /\ \A k \in Matches(v) :
                  call.weight_operations[k].closest_idx
                      \in KDFind(call.import_data.vertices, co[v])

\* C24: with selected_only set, import and paste produce no entry of
\* weight_operations for an unselected vertex and leave it, in every vertex
\* group, the weight it had before.
C24_UnselectedUntouched ==
    (Transferred /\ selected_only) =>
        \A v \in DOMAIN co :
            ~select[v] => /\ Matches(v) = {}
                          /\ weight[v] = call.original_weight[v]

\* a selected vertex got new weights next to an unselected vertex, as near
\* to a source vertex, that kept its weight in group A
C24_Witness ==
    /\ Transferred
    /\ selected_only
    /\ call.result = "FINISHED"
    /\ \E u, v \in DOMAIN co :
          /\ select[u] /\ ~select[v]
          /\ co[u] = co[v]
          /\ weight[u] # call.original_weight[u]
          /\ call.original_weight[v]["A"] = 1
          /\ weight[v]["A"] = 1

\* The groups the invocation appended to the mesh
CreatedGroups == SubSeq(vertex_groups, Len(call.original_groups) + 1, Len(vertex_groups))

\* C25: after a successful import or paste the groups that existed before
\* occupy the same indices in the same order, and every group created from
\* the payload's vertex_groups list comes after all of them.
C25_GroupOrderPreserved ==
    (Transferred /\ call.result = "FINISHED") =>
        /\ Len(vertex_groups) >= Len(call.original_groups)
        /\ SubSeq(vertex_groups, 1, Len(call.original_groups)) = call.original_groups
        /\ \A i \in DOMAIN CreatedGroups :
               /\ CreatedGroups[i] \in Range(call.import_data.vertex_groups)
               /\ CreatedGroups[i] \notin Range(call.original_groups)

C25_Witness ==
    /\ Transferred /\ call.result = "FINISHED"
    /\ Len(call.original_groups) >= 1
    /\ Len(CreatedGroups) >= 1
    /\ call.import_data.vertex_groups[1] = CreatedGroups[1]
    /\ SubSeq(vertex_groups, 1, Len(call.original_groups)) = call.original_groups
    /\ weight # call.original_weight

\* The mesh an operator's outcome leaves behind
SameMesh(out, groups, wt, result) ==
    /\ out.vertex_groups = groups
    /\ out.weight = wt
    /\ out.result = result

\* C26: paste is import with unlimited distance. Every paste step leaves the
\* vertex groups, the weights and the result that an import of the same
\* payload with max_distance = 0 leaves on the same mesh with the same
\* selected_only setting, and every such import step leaves what a paste
\* of that payload leaves.
C26_PasteIsImport ==
    [][ /\ call'.op = "paste" =>
            \E closest \in Lookups(clipboard.vertices, 0) :
                SameMesh(ImportExecute(clipboard, 0, closest),
                         vertex_groups', weight', call'.result)
        /\ (call'.op = "import" /\ call'.max_distance = 0) =>
            \E closest \in Lookups(file.vertices, 0) :
                SameMesh(PasteExecute(file, closest),
                         vertex_groups', weight', call'.result) ]_vars

C26_Witness ==
    /\ call.op = "paste" /\ call.result = "FINISHED"
    /\ selected_only
    /\ Len(vertex_groups) > Len(call.original_groups)
    /\ weight # call.original_weight
    /\ \E v \in DOMAIN co : ~select[v]
    /\ \E k \in DOMAIN call.weight_operations :
           LET op == call.weight_operations[k]
           IN  DistSq(call.import_data.vertices[op.closest_idx].coord, co[op.vertex]) > 1

\* ---------------------------------------------------------------- update check
\* utils/update.py: the manual check (BONE_OT_update_from_online), the daily
\* background check (a timer that starts a thread, which schedules a timer
\* callback on the main thread), register() and unregister().

MaxVersion == 1   \* largest major, minor or patch number
MaxDay == 3       \* last calendar day of a run
MaxThreads == 3   \* threads one run may start

Versions == (0..MaxVersion) \X (0..MaxVersion) \X (0..MaxVersion)
\* what the version search gives when the pattern does not match
NoVersion == <<>>

\* data['tag_name'] of the latest release: a prefix and, when the tag
\* matches v?(\d+)\.(\d+)\.(\d+), the three numbers
Tags == [prefix : {"v", ""}, numbers : Versions]
            \cup {[prefix |-> "nightly", numbers |-> NoVersion]}
\* urlopen raised, or the response had no readable tag
NetworkError == [prefix |-> "", numbers |-> NoVersion]
\* what one request can bring back
Responses(tag) == {tag, NetworkError}

\* f"{v[0]}.{v[1]}.{v[2]}"
VersionStr(v) == ToString(v[1]) \o "." \o ToString(v[2]) \o "." \o ToString(v[3])
TagName(tag) == IF tag.numbers = NoVersion THEN tag.prefix
                ELSE tag.prefix \o VersionStr(tag.numbers)
\* re.match(r'v?(\d+)\.(\d+)\.(\d+)', tag_name): the three groups as integers
TagMatches(tag) == tag.prefix \in {"v", ""} /\ tag.numbers # NoVersion
TagVersion(tag) == <<tag.numbers[1], tag.numbers[2], tag.numbers[3]>>

\* strftime("%Y-%m-%d") of a day, and strptime of a stored string
Days == 0..MaxDay
DateStr(day) == "2025-01-0" \o ToString(day + 1)
StoredDates == {"", "yesterday"} \cup {DateStr(d) : d \in Days}
DateParses(str) == \E d \in Days : DateStr(d) = str
ParseDate(str) == CHOOSE d \in Days : DateStr(d) = str

\* setattr, delattr and hasattr on a namespace
SetAttr(obj, name, value) ==
    [n \in DOMAIN obj \cup {name} |-> IF n = name THEN value ELSE obj[n]]
DelAttr(obj, names) == [n \in DOMAIN obj \ names |-> obj[n]]
HasAttr(obj, name) == name \in DOMAIN obj

\* "Check if update is needed" of BONE_OT_update_from_online.execute
\* (faulty variant: an equal version counts as newer)
ManualIsNewerBug(latest_version, current_version) ==
    \/ latest_version[1] > current_version[1]
    \/ latest_version[1] = current_version[1] /\ latest_version[2] > current_version[2]
    \/ /\ latest_version[1] = current_version[1]
       /\ latest_version[2] = current_version[2]
       /\ latest_version[3] >= current_version[3]
ManualIsNewer(latest_version, current_version) ==
    IF latest_version[1] > current_version[1] THEN TRUE
    ELSE IF latest_version[1] = current_version[1]
            /\ latest_version[2] > current_version[2] THEN TRUE
    ELSE IF latest_version[1] = current_version[1]
            /\ latest_version[2] = current_version[2]
            /\ latest_version[3] > current_version[3] THEN TRUE
    ELSE FALSE

\* is_newer of threaded_update_check
\* (faulty variant: the patch number is not compared)
ThreadedIsNewerBug(latest_version, current_version) ==
    \/ latest_version[1] > current_version[1]
    \/ latest_version[1] = current_version[1] /\ latest_version[2] > current_version[2]
ThreadedIsNewer(latest_version, current_version) ==
    IF latest_version[1] > current_version[1] THEN TRUE
    ELSE IF latest_version[1] = current_version[1]
            /\ latest_version[2] > current_version[2] THEN TRUE
    ELSE IF latest_version[1] = current_version[1]
            /\ latest_version[2] = current_version[2]
            /\ latest_version[3] > current_version[3] THEN TRUE
    ELSE FALSE

\* BONE_OT_update_from_online.execute with the response of the release API
UpdateFromOnline ==
    /\ registered
    /\ ~dialog
    /\ \E response \in Responses(release) :
        LET current_version == installed
            latest_version == IF TagMatches(response) THEN TagVersion(response)
                              ELSE NoVersion
            is_newer == ManualIsNewer(latest_version, current_version)
            done(result, report, shown) ==
                call' = [op |-> "update_from_online", result |-> result,
                         report |-> report, current_version |-> current_version,
                         latest_version |-> latest_version, dialog |-> shown]
        IN  IF current_version = NoVersion
            THEN /\ done("CANCELLED", "Could not determine current version", FALSE)
                 /\ UNCHANGED <<latest_tag_name, window_manager, dialog>>
            ELSE IF latest_version = NoVersion
            THEN /\ done("CANCELLED", "Could not retrieve latest version", FALSE)
                 /\ UNCHANGED <<latest_tag_name, window_manager, dialog>>
            ELSE IF ~is_newer
            THEN /\ latest_tag_name' = TagName(response)
                 /\ done("FINISHED", "You already have the latest version", FALSE)
                 /\ UNCHANGED <<window_manager, dialog>>
            ELSE /\ latest_tag_name' = TagName(response)
                 /\ window_manager' =
                        SetAttr(SetAttr(window_manager, "update_new_version",
                                        VersionStr(latest_version)),
                                "update_current_version", VersionStr(current_version))
                 /\ dialog' = TRUE
                 /\ done("FINISHED", "", TRUE)
    /\ UNCHANGED <<installed, release, today, last_update_check, scene_type, registered,
                   timers, threads>>
    /\ UNCHANGED <<meshVars, armatureVars, presetVars, installVars>>

\* BONE_OT_show_update_dialog.cancel: the dialog is dismissed
CancelUpdate ==
    /\ dialog
    /\ dialog' = FALSE
    /\ call' = [op |-> "cancel_update", result |-> "FINISHED",
                report |-> "Update cancelled"]
    /\ UNCHANGED <<installed, release, today, last_update_check, scene_type, registered,
                   timers, threads, latest_tag_name, window_manager>>
    /\ UNCHANGED <<meshVars, armatureVars, presetVars, installVars>>

\* should_check_for_updates()
\* (faulty variant: a check is due on every call)
ShouldCheckBug(scene_attrs, stored, now) == TRUE
ShouldCheck(scene_attrs, stored, now) ==
    LET parsed == HasAttr(scene_attrs, "bone_tools_last_update_check")
                      /\ stored # "" /\ DateParses(stored)
    IN  IF ~parsed THEN TRUE
        ELSE now > ParseDate(stored)

BackgroundTimer == [callback |-> "background_update_check", thread |-> 0]
UITimer(k) == [callback |-> "update_ui_properties", thread |-> k]

\* background_update_check(), run once by the timer register() set
BackgroundUpdateCheck ==
    /\ BackgroundTimer \in timers
    /\ LET due == ShouldCheck(scene_type, last_update_check, today)
       IN  /\ due => Len(threads) < MaxThreads
           /\ IF due /\ HasAttr(scene_type, "bone_tools_last_update_check")
              THEN /\ last_update_check' = DateStr(today)
                   /\ threads' = Append(threads, [status |-> "running", started_on |-> today,
                                                  is_newer |-> FALSE, tag |-> NetworkError])
              ELSE UNCHANGED <<last_update_check, threads>>
           /\ call' = [op |-> "background_update_check", due |-> due]
    /\ timers' = timers \ {BackgroundTimer}
    /\ UNCHANGED <<installed, release, today, scene_type, registered, latest_tag_name,
                   window_manager, dialog>>
    /\ UNCHANGED <<meshVars, armatureVars, presetVars, installVars>>

\* threaded_update_check() up to its return: thread k reads the installed
\* version, asks for the latest release and schedules update_ui_properties
ThreadedUpdateCheck(k) ==
    /\ k \in DOMAIN threads
    /\ threads[k].status = "running"
    /\ \E response \in Responses(release) :
        IF installed # NoVersion /\ TagMatches(response)
        THEN /\ threads' = [threads EXCEPT ![k] =
                    [status |-> "scheduled", started_on |-> threads[k].started_on,
                     is_newer |-> ThreadedIsNewer(TagVersion(response), installed),
                     tag |-> response]]
             /\ timers' = timers \cup {UITimer(k)}
        ELSE /\ threads' = [threads EXCEPT ![k].status = "returned"]
             /\ UNCHANGED timers
    /\ call' = [op |-> "threaded_update_check", thread |-> k]
    /\ UNCHANGED <<installed, release, today, last_update_check, scene_type, registered,
                   latest_tag_name, window_manager, dialog>>
    /\ UNCHANGED <<meshVars, armatureVars, presetVars, installVars>>

\* update_ui_properties(), the closure thread k scheduled, on the main thread
UpdateUIProperties(k) ==
    /\ UITimer(k) \in timers
    /\ LET is_newer == threads[k].is_newer
           tag == threads[k].tag
       IN  /\ IF is_newer
              THEN /\ latest_tag_name' = TagName(tag)
                   /\ scene_type' =
                        SetAttr(SetAttr(scene_type, "bone_tools_update_available", TRUE),
                                "bone_tools_new_version", VersionStr(TagVersion(tag)))
              ELSE /\ scene_type' = SetAttr(scene_type, "bone_tools_update_available", FALSE)
                   /\ UNCHANGED latest_tag_name
           /\ call' = [op |-> "update_ui_properties", thread |-> k,
                       is_newer |-> is_newer, latest_version |-> TagVersion(tag),
                       current_version |-> installed]
    /\ timers' = timers \ {UITimer(k)}
    /\ threads' = [threads EXCEPT ![k].status = "done"]
    /\ UNCHANGED <<installed, release, today, last_update_check, registered, window_manager, dialog>>
    /\ UNCHANGED <<meshVars, armatureVars, presetVars, installVars>>

\* register() of utils/update.py
Register ==
    /\ ~registered
    /\ registered' = TRUE
    /\ scene_type' =
          SetAttr(SetAttr(SetAttr(scene_type, "bone_tools_update_available", FALSE),
                          "bone_tools_new_version", ""),
                  "bone_tools_last_update_check", "StringProperty")
    /\ timers' = timers \cup {BackgroundTimer}
    /\ call' = [op |-> "register"]
    /\ UNCHANGED <<installed, release, today, last_update_check, threads, latest_tag_name,
                   window_manager, dialog>>
    /\ UNCHANGED <<meshVars, armatureVars, presetVars, installVars>>

\* unregister() of utils/update.py
Unregister ==
    /\ registered
    /\ registered' = FALSE
    /\ timers' = timers \ {BackgroundTimer}
    /\ scene_type' = DelAttr(scene_type, {"bone_tools_update_available",
                                          "bone_tools_new_version",
                                          "bone_tools_last_update_check"})
    /\ call' = [op |-> "unregister"]
    /\ UNCHANGED <<installed, release, today, last_update_check, threads, latest_tag_name,
                   window_manager, dialog>>
    /\ UNCHANGED <<meshVars, armatureVars, presetVars, installVars>>

\* midnight: datetime.datetime.now() moves to the next day
Midnight ==
    /\ today < MaxDay
    /\ today' = today + 1
    /\ UNCHANGED <<installed, release, last_update_check, scene_type, registered, timers,
                   threads, latest_tag_name, window_manager, dialog, call>>
    /\ UNCHANGED <<meshVars, armatureVars, presetVars, installVars>>

SceneAfterRegister ==
    [n \in {"bone_tools_update_available", "bone_tools_new_version",
            "bone_tools_last_update_check"} |->
        IF n = "bone_tools_update_available" THEN FALSE
        ELSE IF n = "bone_tools_new_version" THEN ""
        ELSE "StringProperty"]

\* The add-on has just been enabled: register() has run.
Enabled ==
    /\ scene_type = SceneAfterRegister
    /\ registered = TRUE
    /\ timers = {BackgroundTimer}
    /\ threads = <<>>
    /\ latest_tag_name = ""
    /\ window_manager = <<>>
    /\ dialog = FALSE
    /\ NoInstall
    /\ NoMesh
    /\ NoArmature
    /\ NoPresets
    /\ call = NoCall

\* Any installed version against any latest release, in a new scene.
InitUpdate ==
    /\ installed \in Versions \cup {NoVersion}
    /\ release \in Tags
    /\ today = 1
    /\ last_update_check = ""
    /\ Enabled

\* The manual check and the background check of one session.
NextUpdate ==
    \/ UpdateFromOnline
    \/ CancelUpdate
    \/ BackgroundUpdateCheck
    \/ \E k \in 1..MaxThreads : ThreadedUpdateCheck(k)
    \/ \E k \in 1..MaxThreads : UpdateUIProperties(k)

SpecUpdate == InitUpdate /\ [][NextUpdate]_vars

\* An installed version with an older, an equal and a newer release, in a
\* scene that stores any last-check string.
InitDaily ==
    /\ installed = <<0, 1, 0>>
    /\ release \in {[prefix |-> "v", numbers |-> v] : v \in {<<0, 0, 1>>, <<0, 1, 1>>}}
    /\ today = 1
    /\ last_update_check \in StoredDates
    /\ Enabled

\* The background check over several days, with the add-on disabled and
\* enabled again.
NextDaily ==
    \/ BackgroundUpdateCheck
    \/ \E k \in 1..MaxThreads : ThreadedUpdateCheck(k)
    \/ \E k \in 1..MaxThreads : UpdateUIProperties(k)
    \/ Register
    \/ Unregister
    \/ Midnight

SpecDaily == InitDaily /\ [][NextDaily]_vars


\* ---------------------------------------------------- update check claims
\* Lexicographic order on (major, minor, patch)
LexGreater(a, b) == \E i \in 1..3 : a[i] > b[i] /\ \A j \in 1..(i - 1) : a[j] = b[j]

\* both versions of the comparison could be read
Comparable == installed # NoVersion /\ TagMatches(release)

UpdateAvailable ==
    /\ HasAttr(scene_type, "bone_tools_update_available")
    /\ scene_type["bone_tools_update_available"]

\* C27: an update is offered exactly when the latest release is strictly
\* greater than the installed version in lexicographic order on (major,
\* minor, patch): the manual check opens the dialog exactly then, the
\* background check sets the update-available flag exactly then, neither
\* happens for an equal or older release, and both comparisons agree.
C27_OfferedIffNewer ==
    /\ (call.op = "update_from_online" /\ call.result = "FINISHED") =>
          /\ call.dialog <=> LexGreater(call.latest_version, call.current_version)
          /\ call.dialog =>
                /\ dialog
                /\ window_manager["update_new_version"] = VersionStr(call.latest_version)
    /\ (call.op = "update_from_online" /\ call.result = "FINISHED") => Comparable
    /\ call.op = "update_ui_properties" =>
          (UpdateAvailable <=> LexGreater(call.latest_version, call.current_version))
    /\ (dialog \/ UpdateAvailable) =>
          Comparable /\ LexGreater(TagVersion(release), installed)
    /\ Comparable =>
          ManualIsNewer(TagVersion(release), installed)
              = ThreadedIsNewer(TagVersion(release), installed)

C27_Witness ==
    /\ call.op = "update_ui_properties"
    /\ UpdateAvailable
    /\ scene_type["bone_tools_new_version"] = "1.0.1"
    /\ dialog
    /\ window_manager["update_new_version"] = "1.0.1"
    /\ window_manager["update_current_version"] = "1.0.0"
    /\ latest_tag_name = "v1.0.1"

\* an equal release: checked by both and offered by neither
C27_EqualWitness ==
    /\ call.op = "update_ui_properties"
    /\ call.latest_version = call.current_version
    /\ ~UpdateAvailable /\ ~dialog
    /\ latest_tag_name = "v1.1.0"

\* the stored last-check string names a day
StoredDay(str) == str # "" /\ DateParses(str)

\* C28: the background check starts at most one worker per calendar day.
\* A step that starts a thread starts one, stores today's date with it, and
\* is taken only when the stored date is missing, unparseable or earlier
\* than today; no step starts a thread on a day that already has one, so no
\* two threads are started on the same day.
C28_OncePerDay ==
    [][ /\ Len(threads') > Len(threads) =>
            /\ Len(threads') = Len(threads) + 1
            /\ threads'[Len(threads')].started_on = today
            /\ last_update_check' = DateStr(today)
            /\ ~StoredDay(last_update_check) \/ ParseDate(last_update_check) < today
            /\ \A k \in DOMAIN threads : threads[k].started_on # today
        /\ (StoredDay(last_update_check) /\ ParseDate(last_update_check) >= today) =>
            Len(threads') = Len(threads)
        /\ \A j, k \in DOMAIN threads' :
            j # k => threads'[j].started_on # threads'[k].started_on ]_vars

C28_Witness ==
    /\ call.op = "background_update_check" /\ ~call.due
    /\ today = 2
    /\ last_update_check = DateStr(2)
    /\ Len(threads) = 2
    /\ threads[1].started_on = 1 /\ threads[2].started_on = 2

\* a check that was due because the stored string is not a date
C28_UnparseableWitness ==
    /\ call.op = "background_update_check" /\ call.due
    /\ Len(threads) = 1 /\ threads[1].started_on = 3
    /\ last_update_check = DateStr(3)

\* Scene.bone_tools_update_available or Scene.bone_tools_new_version exists
UpdateStateDefined ==
    \/ HasAttr(scene_type, "bone_tools_update_available")
    \/ HasAttr(scene_type, "bone_tools_new_version")

\* C29: unregistering is final for the update state. While the add-on is
\* unregistered, Scene.bone_tools_update_available and
\* Scene.bone_tools_new_version stay removed, whatever a thread still in
\* flight and the timer callback it schedules do.
C29_UnregisterFinal == ~registered => ~UpdateStateDefined

\* The only step that defines the update state of an unregistered add-on is
\* the timer callback of a thread that was started before unregister().
C29_OnlyStaleCallback ==
    [][ (~registered /\ ~registered' /\ ~UpdateStateDefined /\ UpdateStateDefined') =>
            /\ call'.op = "update_ui_properties"
            /\ threads[call'.thread].status = "scheduled" ]_vars

\* unregister() itself leaves no update state behind
C29_UnregisterRemoves ==
    [][ (registered /\ ~registered') => ~UpdateStateDefined' ]_vars

\* ------------------------------------------------------------------ installers
\* BONE_OT_confirm_update.install_update (utils/update.py) and
\* BONE_OT_update_from_local.execute (utils/install.py). A directory tree is
\* a function from relative paths, each a sequence of names, to "file" or
\* "dir"; a path has its parent directory in the tree.

AddonFolder == "blender-bone-tools"
InitFile == <<"__init__.py">>
Paths == {InitFile, <<"x">>, <<"z">>, <<"x", "x">>, <<"x", "z">>}
Kinds(path) == IF path = <<"x">> THEN {"file", "dir"} ELSE {"file"}
EmptyTree == <<>>

ParentDir(path) == SubSeq(path, 1, Len(path) - 1)
IsPrefix(d, path) == Len(d) <= Len(path) /\ SubSeq(path, 1, Len(d)) = d
IsDir(tree, path) == path = <<>> \/ (path \in DOMAIN tree /\ tree[path] = "dir")
IsFile(tree, path) == path \in DOMAIN tree /\ tree[path] = "file"
Exists(tree, path) == path = <<>> \/ path \in DOMAIN tree

Trees ==
    {t \in UNION {[S -> {"file", "dir"}] : S \in SUBSET Paths} :
        \A path \in DOMAIN t :
            /\ t[path] \in Kinds(path)
            /\ IsDir(t, ParentDir(path))}

\* the tree below directory d, with paths relative to d
Subtree(tree, d) ==
    [path \in {SubSeq(q, Len(d) + 1, Len(q)) : q \in {q \in DOMAIN tree : IsPrefix(d, q) /\ q # d}}
        |-> tree[d \o path]]
\* tree, placed in a folder of the given name
InFolder(name, tree) ==
    [path \in {<<name>>} \cup {<<name>> \o q : q \in DOMAIN tree}
        |-> IF path = <<name>> THEN "dir" ELSE tree[SubSeq(path, 2, Len(path))]]

\* The zip at zip_path: missing, unreadable, or extracting to a tree
Packages ==
    {[zip |-> "missing", extracted |-> EmptyTree], [zip |-> "corrupt", extracted |-> EmptyTree]}
        \cup {[zip |-> "ok", extracted |-> InFolder(AddonFolder, t)] : t \in Trees}
        \cup {[zip |-> "ok", extracted |-> t] : t \in Trees}

\* the set os.walk collects: every directory and file, relative to the root
Walk(tree) == DOMAIN tree

\* extracted_folders: the directories os.listdir(temp_dir) lists
ExtractedFolders(extracted) ==
    {path \in DOMAIN extracted : Len(path) = 1 /\ extracted[path] = "dir"}

\* "Find source directory" of install_update: a folder whose name contains
\* blender-bone-tools, else the first folder listed, else temp_dir itself
OnlineSourceDirs(extracted) ==
    LET folders == ExtractedFolders(extracted)
        named == {f \in folders : f[1] = AddonFolder}
    IN  IF named # {} THEN named
        ELSE IF folders # {} THEN folders
        ELSE {<<>>}

\* os.makedirs(path, exist_ok=True): the missing directories of the path are
\* created; it fails when a file stands where a directory is needed
MakeDirsFails(tree, path) ==
    \E k \in 1..Len(path) : IsFile(tree, SubSeq(path, 1, k))
MakeDirs(tree, path) ==
    [q \in DOMAIN tree \cup {SubSeq(path, 1, k) : k \in 1..Len(path)} |->
        IF q \in DOMAIN tree THEN tree[q] ELSE "dir"]

\* shutil.copy2(s, d): into d when d is a directory, else onto d
CopyTarget(tree, path) ==
    IF IsDir(tree, path) THEN path \o <<path[Len(path)]>> ELSE path
Copy2Fails(tree, path) ==
    \/ IsDir(tree, CopyTarget(tree, path))
    \/ ~IsDir(tree, ParentDir(CopyTarget(tree, path)))
Copy2(tree, path) ==
    [q \in DOMAIN tree \cup {CopyTarget(tree, path)} |->
        IF q = CopyTarget(tree, path) THEN "file" ELSE tree[q]]

\* shutil.rmtree / os.remove: the path and everything below it
Remove(tree, path) == [q \in {q \in DOMAIN tree : ~IsPrefix(path, q)} |-> tree[q]]
RemoveAll(tree, paths) ==
    [q \in {q \in DOMAIN tree : \A path \in paths : ~IsPrefix(path, q)} |-> tree[q]]

\* "Copy new files" of install_update: one item of new_files_and_dirs
OnlineCopyItem(st, source, item) ==
    IF ~st.ok THEN st
    ELSE IF source[item] = "dir"
    THEN IF Exists(st.tree, item) THEN st
         ELSE IF MakeDirsFails(st.tree, item) THEN [st EXCEPT !.ok = FALSE]
         ELSE [st EXCEPT !.tree = MakeDirs(st.tree, item)]
    ELSE IF MakeDirsFails(st.tree, ParentDir(item)) THEN [st EXCEPT !.ok = FALSE]
    ELSE LET made == MakeDirs(st.tree, ParentDir(item))
         IN  IF Copy2Fails(made, item) THEN [ok |-> FALSE, tree |-> made]
             ELSE [st EXCEPT !.tree = Copy2(made, item)]

RECURSIVE OnlineCopy(_, _, _)
OnlineCopy(st, source, items) ==
    IF items = {} THEN st
    ELSE LET item == CHOOSE i \in items : \A j \in items : Len(i) <= Len(j)
         IN  OnlineCopy(OnlineCopyItem(st, source, item), source, items \ {item})

\* "Copy new files" of the local install: one entry of os.listdir(source_dir)
LocalCopyItem(st, source, item) ==
    IF ~st.ok THEN st
    ELSE IF source[item] = "dir"
    THEN IF IsFile(st.tree, item) THEN [st EXCEPT !.ok = FALSE]
         ELSE LET cleared == Remove(st.tree, item)
                  copied == InFolder(item[1], Subtree(source, item))
              IN  [st EXCEPT !.tree = [q \in DOMAIN cleared \cup DOMAIN copied |->
                                          IF q \in DOMAIN copied THEN copied[q]
                                          ELSE cleared[q]]]
    ELSE IF Copy2Fails(st.tree, item) THEN [st EXCEPT !.ok = FALSE]
    ELSE [st EXCEPT !.tree = Copy2(st.tree, item)]

RECURSIVE LocalCopy(_, _, _)
LocalCopy(st, source, items) ==
    IF items = {} THEN st
    ELSE LET item == CHOOSE i \in items : TRUE
         IN  LocalCopy(LocalCopyItem(st, source, item), source, items \ {item})

InstallOutcome(ok, report, tree, source) ==
    [ok |-> ok, report |-> report, tree |-> tree, source |-> source,
     new_files_and_dirs |-> Walk(source)]

\* "Remove old files not in new version"
\* (faulty variant: nothing is removed)
RemoveOldBug(tree, old_files_and_dirs, new_files_and_dirs) == tree
RemoveOld(tree, old_files_and_dirs, new_files_and_dirs) ==
    RemoveAll(tree, old_files_and_dirs \ new_files_and_dirs)

\* BONE_OT_confirm_update.install_update(zip_path), with source_dir chosen
InstallUpdateFrom(source_dir) ==
    IF package.zip = "missing"
    THEN InstallOutcome(FALSE, "Update package not found", addon_dir, EmptyTree)
    ELSE IF package.zip = "corrupt"
    THEN InstallOutcome(FALSE, "Extraction error", addon_dir, EmptyTree)
    ELSE LET source == Subtree(package.extracted, source_dir)
         IN  IF ~Exists(source, InitFile)
             THEN InstallOutcome(FALSE, "Invalid addon structure in zip file", addon_dir, EmptyTree)
             ELSE LET old_files_and_dirs == Walk(addon_dir)
                      new_files_and_dirs == Walk(source)
                      copied == OnlineCopy([ok |-> TRUE, tree |-> addon_dir], source,
                                           new_files_and_dirs)
                  IN  IF ~copied.ok
                      THEN InstallOutcome(FALSE, "Update error", copied.tree,
                                          source)
                      ELSE InstallOutcome(TRUE, "",
                                          RemoveOld(copied.tree, old_files_and_dirs,
                                                    new_files_and_dirs),
                                          source)

\* BONE_OT_update_from_local.execute, with the first extracted folder chosen
UpdateFromLocalFrom(folders, source_dir) ==
    IF package.zip = "missing"
    THEN InstallOutcome(FALSE, "File not found", addon_dir, EmptyTree)
    ELSE IF package.zip = "corrupt"
    THEN InstallOutcome(FALSE, "Error updating addon", addon_dir, EmptyTree)
    ELSE IF folders = {}
    THEN InstallOutcome(FALSE, "No folders found in zip file", addon_dir, EmptyTree)
    ELSE LET source == Subtree(package.extracted, source_dir)
             old_files_and_dirs == Walk(addon_dir)
             new_files_and_dirs == Walk(source)
             copied == LocalCopy([ok |-> TRUE, tree |-> addon_dir], source,
                                 {item \in DOMAIN source : Len(item) = 1})
         IN  IF ~copied.ok
             THEN InstallOutcome(FALSE, "Error updating addon", copied.tree, source)
             ELSE InstallOutcome(TRUE, "Addon updated successfully",
                                 RemoveOld(copied.tree, old_files_and_dirs,
                                           new_files_and_dirs),
                                 source)

InstallRecord(op, out) ==
    [op |-> op, ok |-> out.ok, report |-> out.report,
     old_tree |-> addon_dir, source |-> out.source,
     new_files_and_dirs |-> out.new_files_and_dirs]

InstallUpdate ==
    /\ call = NoCall
    /\ \E source_dir \in OnlineSourceDirs(package.extracted) :
          LET out == InstallUpdateFrom(source_dir)
          IN  /\ addon_dir' = out.tree
              /\ call' = InstallRecord("install_update", out)
    /\ UNCHANGED <<package, updateVars, meshVars, armatureVars, presetVars>>

UpdateFromLocal ==
    /\ call = NoCall
    /\ LET folders == ExtractedFolders(package.extracted)
       IN  \E source_dir \in (IF folders = {} THEN {<<>>} ELSE folders) :
              LET out == UpdateFromLocalFrom(folders, source_dir)
              IN  /\ addon_dir' = out.tree
                  /\ call' = InstallRecord("update_from_local", out)
    /\ UNCHANGED <<package, updateVars, meshVars, armatureVars, presetVars>>

\* An installed add-on and a zip to install from.
InitInstall ==
    /\ addon_dir \in {t \in Trees : Exists(t, InitFile)}
    /\ package \in Packages
    /\ NoUpdate
    /\ NoMesh
    /\ NoArmature
    /\ NoPresets
    /\ call = NoCall

NextInstall == InstallUpdate \/ UpdateFromLocal

SpecInstall == InitInstall /\ [][NextInstall]_vars

\* ------------------------------------------------------------- installer claims
Installed == call.op \in {"install_update", "update_from_local"}

\* C30: after an installation that reports success the set of relative file
\* and directory paths in the add-on directory equals the set in the new
\* package.
C30_SamePaths == (Installed /\ call.ok) => Walk(addon_dir) = call.new_files_and_dirs

\* No directory of the old version is a file in the new one.
NoDirBecomesFile ==
    \A path \in call.new_files_and_dirs :
        IsDir(call.old_tree, path) => IsDir(call.source, path)

\* Where no directory of the old version is replaced by a file of the same
\* name, a successful installation leaves exactly the paths of the new version.
C30_SamePathsSameKinds ==
    (Installed /\ call.ok /\ NoDirBecomesFile) => Walk(addon_dir) = call.new_files_and_dirs

C30_Witness ==
    /\ Installed /\ call.ok /\ NoDirBecomesFile
    /\ IsDir(call.old_tree, <<"x">>) /\ IsFile(call.old_tree, <<"x", "z">>)
    /\ IsFile(call.old_tree, <<"z">>)
    /\ Walk(addon_dir) = {InitFile, <<"x">>, <<"x", "x">>}

=============================================================================
